---- MODULE Spec2Model ----
(***************************************************************************)
(* rchaser53/calculator.                                                   *)
(*                                                                         *)
(* The FX margin engine: calculateTotalPnL, calculateTotalRequiredMargin,  *)
(* calculateMarginLevelAtRate and findCriticalRate (fxUsdJpyAnalyzer.js),  *)
(* and the rate scan of displayUsdJpyAnalysisTable and of                  *)
(* GET /api/fx-analysis (server.js).  The ConfigPanel and FXAnalyzer       *)
(* components with the Toast, and the handlers of GET /api/fx-analysis and *)
(* PUT /api/fx-config.  The loan calculator: calculateMonthlyPayment,      *)
(* calculateLoanDeduction, calculateYearlyBalance, displayLoanCalculation  *)
(* and calculateFromConfig (loanCalculator.js).                            *)
(*                                                                         *)
(* A JavaScript number is modelled in one of two ways.  An exact number    *)
(* is a decimal-scaled rational (n/d) * 10^e whose arithmetic is that of   *)
(* the reals: the rounding of IEEE doubles is left out, the rounding done  *)
(* by the code (toFixed, Math.round) is not.  A double is a binary64       *)
(* value s * m * 2^x whose operations round to nearest, ties to even, as   *)
(* the operations of JavaScript do.  An operation of the loan calculator   *)
(* with a double among its operands is one of doubles.  The schedules of   *)
(* displayLoanCalculation are computed in doubles, everything else in      *)
(* exact numbers.                                                          *)
(***************************************************************************)
EXTENDS Integers, Sequences, FiniteSets, TLC

(***************************************************************************)
(* Numbers: [n, d, e] stands for (n/d) * 10^e, kept in the normal form     *)
(* gcd(n,d) = 1, d > 0, neither n nor d a multiple of 5; zero is [0,1,0].  *)
(* The normal form is unique, so = on numbers is numeric =.                *)
(***************************************************************************)
\* F applied to the values of its arguments: an argument is a value computed once
\* before the call, as in the source, however often F reads it
Call1(F(_), a) == CHOOSE r \in {F(x) : x \in {a}} : TRUE
Call2(F(_, _), a, b) == CHOOSE r \in {F(x, y) : x \in {a}, y \in {b}} : TRUE

AbsInt(i) == IF i < 0 THEN -i ELSE i

RECURSIVE Gcd(_, _)
Gcd(a, b) == Call2(LAMBDA x, y : IF y = 0 THEN x ELSE Gcd(y, x % y), a, b)

RECURSIVE Pow10(_)
Pow10(k) == IF k <= 0 THEN 1 ELSE 10 * Pow10(k - 1)

RECURSIVE Digits(_)
Digits(i) == IF i < 10 THEN 1 ELSE 1 + Digits(i \div 10)

Zero == [n |-> 0, d |-> 1, e |-> 0]

\* what a division by zero yields (Infinity, -Infinity or NaN) and what arithmetic on it
\* yields: told apart from every number, and in no order with any
NonFinite == [n |-> 1, d |-> 0, e |-> 0]

\* the factors 5 of the denominator moved into the exponent
RECURSIVE StripDen(_, _, _)
StripDen(n, d, e) ==
  IF d % 5 = 0 THEN StripDen(n * 2, d \div 5, e - 1)
  ELSE [n |-> n, d |-> d, e |-> e]

\* the factors 5 of the numerator moved into the exponent
RECURSIVE StripNum(_, _, _)
StripNum(n, d, e) ==
  IF n % 5 = 0 THEN StripNum(n \div 5, d * 2, e + 1)
  ELSE [n |-> n, d |-> d, e |-> e]

Reduced(x, g) == [n |-> x.n \div g, d |-> x.d \div g, e |-> x.e]
Reduce(x) == Call1(LAMBDA v : Call1(LAMBDA g : Reduced(v, g), Gcd(AbsInt(v.n), v.d)), x)

ReduceStripNum(b) == Call1(LAMBDA v : Reduce(StripNum(v.n, v.d, v.e)), b)
ReduceStripDen(a) == Call1(LAMBDA v : ReduceStripNum(Reduce(StripDen(v.n, v.d, v.e))), a)

Norm(n, d, e) ==
  IF n = 0 THEN Zero
  ELSE IF d < 0 THEN ReduceStripDen(Reduce([n |-> -n, d |-> -d, e |-> e]))
  ELSE ReduceStripDen(Reduce([n |-> n, d |-> d, e |-> e]))

Num(i) == Norm(i, 1, 0)
Frac(i, j) == Norm(i, j, 0)
Sci(i, k) == Norm(i, 1, k)

(***************************************************************************)
(* IEEE 754 binary64 numbers: [s, m, x] stands for s * m * 2^x, s the sign *)
(* (0 for zero) and m a natural number of exactly 53 bits, written as the  *)
(* sequence of its digits to the base 2^15, most significant first.  The   *)
(* form is unique, so = on doubles is numeric =.  Every operation rounds   *)
(* its exact result to the nearest double, ties to the even mantissa.  The *)
(* values of the model stay clear of the subnormal range and of overflow.  *)
(***************************************************************************)
MantissaBits == 53
LimbBits == 15
Base == 32768

MaxInt(i, j) == IF i < j THEN j ELSE i
MinInt(i, j) == IF i < j THEN i ELSE j

RECURSIVE Pow2(_)
Pow2(k) == IF k <= 0 THEN 1 ELSE 2 * Pow2(k - 1)

RECURSIVE BitLen(_)
BitLen(i) == IF i = 0 THEN 0 ELSE 1 + BitLen(i \div 2)

Zeros(k) == [i \in 1..k |-> 0]

RECURSIVE BigTrim(_)
BigTrim(a) == IF a = <<>> THEN <<>> ELSE IF a[1] = 0 THEN BigTrim(Tail(a)) ELSE a

RECURSIVE BigOfInt(_)
BigOfInt(i) == IF i = 0 THEN <<>> ELSE Append(BigOfInt(i \div Base), i % Base)

BigBitLen(a) == IF a = <<>> THEN 0 ELSE LimbBits * (Len(a) - 1) + BitLen(a[1])

BigPad(a, n) == IF Len(a) >= n THEN a ELSE Zeros(n - Len(a)) \o a

\* a < b for digit sequences of one length, from index i on
RECURSIVE BigLessFrom(_, _, _)
BigLessFrom(a, b, i) ==
  IF i > Len(a) THEN FALSE
  ELSE IF a[i] # b[i] THEN a[i] < b[i]
  ELSE BigLessFrom(a, b, i + 1)

BigLess(a, b) == IF Len(a) # Len(b) THEN Len(a) < Len(b) ELSE BigLessFrom(a, b, 1)

RECURSIVE BigAddFrom(_, _, _, _, _)
BigAddFrom(a, b, i, carry, acc) ==
  IF i = 0 THEN <<carry>> \o acc
  ELSE BigAddFrom(a, b, i - 1, (a[i] + b[i] + carry) \div Base,
                  <<(a[i] + b[i] + carry) % Base>> \o acc)

BigAdd(a, b) ==
  BigTrim(BigAddFrom(BigPad(a, MaxInt(Len(a), Len(b))), BigPad(b, MaxInt(Len(a), Len(b))),
                     MaxInt(Len(a), Len(b)), 0, <<>>))

\* a - b for a >= b
RECURSIVE BigSubFrom(_, _, _, _, _)
BigSubFrom(a, b, i, borrow, acc) ==
  IF i = 0 THEN acc
  ELSE BigSubFrom(a, b, i - 1, IF a[i] < b[i] + borrow THEN 1 ELSE 0,
                  <<(a[i] - b[i] - borrow + Base) % Base>> \o acc)

BigSub(a, b) == BigTrim(BigSubFrom(a, BigPad(b, Len(a)), Len(a), 0, <<>>))

\* a * k for 0 <= k < Base
RECURSIVE BigMulSmallFrom(_, _, _, _, _)
BigMulSmallFrom(a, k, i, carry, acc) ==
  IF i = 0 THEN <<carry>> \o acc
  ELSE BigMulSmallFrom(a, k, i - 1, (a[i] * k + carry) \div Base,
                       <<(a[i] * k + carry) % Base>> \o acc)

BigMulSmall(a, k) == BigTrim(BigMulSmallFrom(a, k, Len(a), 0, <<>>))

\* acc * Base^(Len(b) - i + 1) + a * b[i..], one digit of b at a time
RECURSIVE BigMulFrom(_, _, _, _)
BigMulFrom(a, b, i, acc) ==
  IF i > Len(b) THEN acc
  ELSE BigMulFrom(a, b, i + 1,
                  BigAdd(IF acc = <<>> THEN <<>> ELSE acc \o <<0>>, BigMulSmall(a, b[i])))

BigMul(a, b) == BigMulFrom(a, b, 1, <<>>)

\* <<quotient, remainder>> of a by k, 0 < k < Base, one digit of a at a time
RECURSIVE BigDivSmallFrom(_, _, _, _, _)
BigDivSmallFrom(a, k, i, rem, q) ==
  IF i > Len(a) THEN <<BigTrim(q), rem>>
  ELSE BigDivSmallFrom(a, k, i + 1, (rem * Base + a[i]) % k,
                       Append(q, (rem * Base + a[i]) \div k))

BigDivSmall(a, k) == BigDivSmallFrom(a, k, 1, 0, <<>>)

\* a * 2^k, and the integer part of a / 2^k
BigShl(a, k) ==
  IF a = <<>> THEN <<>> ELSE BigMulSmall(a, Pow2(k % LimbBits)) \o Zeros(k \div LimbBits)

BigShr(a, k) ==
  IF Len(a) <= k \div LimbBits THEN <<>>
  ELSE BigDivSmall(SubSeq(a, 1, Len(a) - k \div LimbBits), Pow2(k % LimbBits))[1]

BigOdd(a) == a # <<>> /\ a[Len(a)] % 2 = 1

DoubleZero == [s |-> 0, m |-> <<>>, x |-> 0]

IsDouble(v) == "m" \in DOMAIN v

\* s * q * 2^x, q of MantissaBits or MantissaBits + 1 bits, the latter a power of two
DoubleOf(s, q, x) ==
  IF BigBitLen(q) > MantissaBits
  THEN [s |-> s, m |-> BigShr(q, 1), x |-> x + 1]
  ELSE [s |-> s, m |-> q, x |-> x]

\* q1 is a without its last k - 1 bits, k > 0: a with its last k bits rounded off,
\* to the nearest, a tie to the even; inexact says that the exact value lies above a
HalfRounded(a, q1, k, inexact) ==
  IF BigOdd(q1) /\ (inexact \/ BigShl(q1, k - 1) # a \/ BigOdd(BigShr(q1, 1)))
  THEN BigAdd(BigShr(q1, 1), <<1>>)
  ELSE BigShr(q1, 1)

\* s * a * 2^x rounded, for a digit sequence a without leading zeros; from an inexact
\* a at least MantissaBits + 2 bits are known
DoubleRounded(s, a, x, inexact) ==
  IF a = <<>> THEN DoubleZero
  ELSE IF BigBitLen(a) <= MantissaBits
  THEN [s |-> s, m |-> BigShl(a, MantissaBits - BigBitLen(a)),
        x |-> x - (MantissaBits - BigBitLen(a))]
  ELSE DoubleOf(s,
                HalfRounded(a, BigShr(a, BigBitLen(a) - MantissaBits - 1),
                            BigBitLen(a) - MantissaBits, inexact),
                x + BigBitLen(a) - MantissaBits)

DoubleNorm(s, a, x, inexact) == Call1(LAMBDA v : DoubleRounded(s, v, x, inexact), BigTrim(a))

DoubleOfInt(i) == DoubleNorm(IF i < 0 THEN -1 ELSE 1, BigOfInt(AbsInt(i)), 0, FALSE)

\* the sum of s1 * a * 2^x and s2 * b * 2^x
DoubleAddAligned(s1, a, s2, b, x) ==
  IF s1 = s2 THEN DoubleNorm(s1, BigAdd(a, b), x, FALSE)
  ELSE IF a = b THEN DoubleZero
  ELSE IF BigLess(a, b) THEN DoubleNorm(s2, BigSub(b, a), x, FALSE)
  ELSE DoubleNorm(s1, BigSub(a, b), x, FALSE)

DoubleAdd(a, b) ==
  IF a.s = 0 THEN b
  ELSE IF b.s = 0 THEN a
  ELSE DoubleAddAligned(a.s, BigShl(a.m, a.x - MinInt(a.x, b.x)),
                        b.s, BigShl(b.m, b.x - MinInt(a.x, b.x)), MinInt(a.x, b.x))

DoubleNeg(a) == [a EXCEPT !.s = -a.s]

DoubleMul(a, b) ==
  IF a.s = 0 \/ b.s = 0 THEN DoubleZero
  ELSE DoubleNorm(a.s * b.s, BigMul(a.m, b.m), a.x + b.x, FALSE)

\* the number of zero bits at the end of a, a # <<>>
RECURSIVE BigTrailingZeros(_)
BigTrailingZeros(a) == IF BigOdd(a) THEN 0 ELSE 1 + BigTrailingZeros(BigShr(a, 1))

\* the quotient by a divisor k * 2^t, k below Base: the divisors of the model are
\* integers below 2^15 and their multiples by powers of two
DoubleQuotient(s, qr, x) == DoubleNorm(s, qr[1], x, qr[2] # 0)

DoubleDivOdd(a, s, k, x) ==
  CASE Len(k) = 1 ->
    DoubleQuotient(a.s * s, BigDivSmall(BigShl(a.m, LimbBits + 2), k[1]),
                   a.x - x - LimbBits - 2)

DoubleDivBy(a, b, t) == DoubleDivOdd(a, b.s, BigShr(b.m, t), b.x + t)

DoubleDiv(a, b) ==
  IF a.s = 0 THEN DoubleZero ELSE Call1(LAMBDA t : DoubleDivBy(a, b, t), BigTrailingZeros(b.m))

DoubleLt(a, b) ==
  IF a.s # b.s THEN a.s < b.s
  ELSE IF a.s = 0 THEN FALSE
  ELSE IF a.s = 1 THEN a.x < b.x \/ (a.x = b.x /\ BigLess(a.m, b.m))
  ELSE b.x < a.x \/ (a.x = b.x /\ BigLess(b.m, a.m))

\* the double nearest to the number (n/d) * 10^e: the value of a decimal literal
ToDouble(v) ==
  IF IsDouble(v) THEN v
  ELSE IF v.n = 0 THEN DoubleZero
  ELSE DoubleDiv(DoubleOfInt(v.n * Pow10(v.e)), DoubleOfInt(v.d * Pow10(-v.e)))

\* the operation is one of doubles: an operand is a double, the other a double or a
\* literal, and neither is the outcome of a division by zero
OnDoubles(u, v) == (IsDouble(u) \/ IsDouble(v)) /\ u # NonFinite /\ v # NonFinite

Sgn(x) == Call1(LAMBDA v : IF v.n > 0 THEN 1 ELSE IF v.n < 0 THEN -1 ELSE 0, x)
Neg(x) == Call1(LAMBDA v : IF v = NonFinite THEN NonFinite ELSE [v EXCEPT !.n = -v.n], x)
Abs(x) == Call1(LAMBDA v : IF v = NonFinite THEN NonFinite ELSE [v EXCEPT !.n = AbsInt(v.n)], x)

\* the product, with g1 and g2 cancelled crosswise before multiplying
MulCross(x, y, g1, g2) ==
  Norm((x.n \div g1) * (y.n \div g2), (x.d \div g2) * (y.d \div g1), x.e + y.e)

MulValues(x, y) ==
  IF x = NonFinite \/ y = NonFinite THEN NonFinite
  ELSE IF x.n = 0 \/ y.n = 0 THEN Zero
  ELSE MulCross(x, y, Gcd(AbsInt(x.n), y.d), Gcd(AbsInt(y.n), x.d))

Mul(x, y) == Call2(MulValues, x, y)

Inv(x) == Call1(LAMBDA v : Norm(Sgn(v) * v.d, AbsInt(v.n), -v.e), x)

Div(x, y) ==
  Call2(LAMBDA u, v : IF v.n = 0 \/ v = NonFinite THEN NonFinite ELSE Mul(u, Inv(v)), x, y)

\* (n/d) * 10^g as a fraction <<numerator, denominator>>, g >= 0
RECURSIVE Scale(_, _, _)
Scale(n, d, g) ==
  IF g = 0 THEN <<n, d>>
  ELSE IF d % 2 = 0 THEN Scale(n * 5, d \div 2, g - 1)
  ELSE Scale(n * 10, d, g - 1)

\* (a + b) * 10^e for fractions a and b, over their least common denominator l
AddOver(a, b, l, e) ==
  Call1(LAMBDA m : Norm(a[1] * (m \div a[2]) + b[1] * (m \div b[2]), m, e), l)
AddAligned(a, b, e) ==
  Call2(LAMBDA u, v : AddOver(u, v, (u[2] \div Gcd(u[2], v[2])) * v[2], e), a, b)

AddValues(x, y) ==
  IF x = NonFinite \/ y = NonFinite THEN NonFinite
  ELSE IF x.n = 0 THEN y
  ELSE IF y.n = 0 THEN x
  ELSE IF x.e < y.e THEN AddAligned(Scale(x.n, x.d, 0), Scale(y.n, y.d, y.e - x.e), x.e)
  ELSE AddAligned(Scale(x.n, x.d, x.e - y.e), Scale(y.n, y.d, 0), y.e)

Add(x, y) == Call2(AddValues, x, y)

Sub(x, y) == Add(x, Neg(y))

\* 10^MagLo(x) < |x| < 10^MagHi(x) for x # 0
MagLo(x) == Digits(AbsInt(x.n)) - Digits(x.d) - 1 + x.e
MagHi(x) == Digits(AbsInt(x.n)) - Digits(x.d) + 1 + x.e

LtPosValues(x, y) ==
  IF MagHi(x) <= MagLo(y) THEN TRUE
  ELSE IF MagHi(y) <= MagLo(x) THEN FALSE
  ELSE Sgn(Sub(x, y)) < 0

LtPos(x, y) == Call2(LtPosValues, x, y)

LtValues(x, y) ==
  IF x = NonFinite \/ y = NonFinite THEN FALSE
  ELSE IF Sgn(x) # Sgn(y) THEN Sgn(x) < Sgn(y)
  ELSE IF Sgn(x) = 0 THEN FALSE
  ELSE IF Sgn(x) > 0 THEN LtPos(x, y)
  ELSE LtPos(Neg(y), Neg(x))

Lt(x, y) == Call2(LtValues, x, y)

Le(x, y) == Call2(LAMBDA u, v : (u = v /\ u # NonFinite) \/ Lt(u, v), x, y)
Gt(x, y) == Lt(y, x)

(***************************************************************************)
(* The operators on the numbers of the loan calculator, which are doubles  *)
(* in the schedules of displayLoanCalculation and exact numbers elsewhere. *)
(***************************************************************************)
NegNumber(x) == Call1(LAMBDA v : IF IsDouble(v) THEN DoubleNeg(v) ELSE Neg(v), x)

MulNumbers(x, y) ==
  Call2(LAMBDA u, v : IF OnDoubles(u, v) THEN DoubleMul(ToDouble(u), ToDouble(v))
                      ELSE IF IsDouble(u) \/ IsDouble(v) THEN NonFinite
                      ELSE Mul(u, v),
        x, y)

DivNumbers(x, y) ==
  Call2(LAMBDA u, v : IF OnDoubles(u, v)
                      THEN IF ToDouble(v) = DoubleZero THEN NonFinite
                           ELSE DoubleDiv(ToDouble(u), ToDouble(v))
                      ELSE IF IsDouble(u) \/ IsDouble(v) THEN NonFinite
                      ELSE Div(u, v),
        x, y)

AddNumbers(x, y) ==
  Call2(LAMBDA u, v : IF OnDoubles(u, v) THEN DoubleAdd(ToDouble(u), ToDouble(v))
                      ELSE IF IsDouble(u) \/ IsDouble(v) THEN NonFinite
                      ELSE Add(u, v),
        x, y)

SubNumbers(x, y) == AddNumbers(x, NegNumber(y))

LtNumbers(x, y) ==
  Call2(LAMBDA u, v : IF OnDoubles(u, v) THEN DoubleLt(ToDouble(u), ToDouble(v))
                      ELSE IF IsDouble(u) \/ IsDouble(v) THEN FALSE
                      ELSE Lt(u, v),
        x, y)

LeNumbers(x, y) ==
  Call2(LAMBDA u, v : IF OnDoubles(u, v) THEN ~DoubleLt(ToDouble(v), ToDouble(u))
                      ELSE IF IsDouble(u) \/ IsDouble(v) THEN FALSE
                      ELSE Le(u, v),
        x, y)

\* <<q, r>> with (q + r/d) * 10^g and 0 <= r < d: the quotient and the remainder of
\* (q * d + r) * 10^g by d, one decimal digit at a time
RECURSIVE ShiftUp(_, _, _, _)
ShiftUp(q, r, d, g) ==
  IF g <= 0 THEN <<q, r>>
  ELSE ShiftUp(q * 10 + (r * 10) \div d, (r * 10) % d, d, g - 1)

\* the largest integer <= x
FloorValue(x) ==
  IF x.e >= 0 THEN ShiftUp(x.n \div x.d, x.n % x.d, x.d, x.e)[1]
  ELSE IF x.e < -9 THEN (IF x.n < 0 THEN -1 ELSE 0)
  ELSE (x.n \div x.d) \div Pow10(-x.e)

\* the integer nearest to x >= 0, a tie going up when tieUp and down otherwise
Floor(x) == Call1(FloorValue, x)

\* q1 + r1/d, divided by p = 10^k and rounded to the nearest integer
NearestOf(q1, r1, d, k, p, tieUp) ==
  IF k = 0
  THEN q1 + (IF 2 * r1 > d \/ (2 * r1 = d /\ tieUp) THEN 1 ELSE 0)
  ELSE (q1 \div p)
       + (IF \/ q1 % p > p \div 2
             \/ (q1 % p = p \div 2 /\ r1 > 0)
             \/ (q1 % p = p \div 2 /\ r1 = 0 /\ tieUp)
          THEN 1 ELSE 0)

NearestQR(qr, d, k, tieUp) ==
  Call2(LAMBDA v, p : NearestOf(v[1], v[2], d, k, p, tieUp), qr, Pow10(k))

Nearest(x, tieUp) ==
  Call1(LAMBDA v : IF v.e < -9 THEN 0
                   ELSE NearestQR(ShiftUp(v.n \div v.d, v.n % v.d, v.d, v.e), v.d,
                                  IF v.e < 0 THEN -v.e ELSE 0, tieUp),
        x)

\* Math.round: the nearest integer, ties going towards +Infinity
Round(x) ==
  Call1(LAMBDA v : IF v = NonFinite THEN NonFinite
                   ELSE IF v.n >= 0 THEN Num(Nearest(v, TRUE))
                   ELSE Num(-Nearest(Neg(v), FALSE)),
        x)

\* Number.prototype.toFixed(digits) read back with parseFloat: the nearest
\* multiple of 10^-digits, ties going away from zero
ToFixed(x, digits) ==
  Call1(LAMBDA v : IF v = NonFinite THEN NonFinite
                   ELSE Norm(Sgn(v) * Nearest(Mul(Abs(v), Sci(1, digits)), TRUE), 1, -digits),
        x)

(***************************************************************************)
(* fxUsdJpyAnalyzer.js: the book and the margin engine                     *)
(***************************************************************************)
LotSize == 10000
Epsilon == Sci(1, -10)

\* JavaScript null, shaped like a number so that it compares with one
Null == [n |-> 0, d |-> 0, e |-> 0]

\* String.prototype.toLowerCase on the side strings of the model
ToLowerCase(s) ==
  CASE s = "Buy" -> "buy"
    [] s = "BUY" -> "buy"
    [] s = "Sell" -> "sell"
    [] s = "SELL" -> "sell"
    [] s = "Long" -> "long"
    [] OTHER -> s

Units(position) == Mul(position.lots, Num(LotSize))

\* a variant that treats every position as a long
PositionPnLLongOnly(position, currentRate) ==
  Mul(Sub(currentRate, position.entryPrice), Units(position))

\* a variant with the two sides exchanged
PositionPnLSwapped(position, currentRate) ==
  IF ToLowerCase(position.side) = "buy"
  THEN Mul(Sub(position.entryPrice, currentRate), Units(position))
  ELSE Mul(Sub(currentRate, position.entryPrice), Units(position))

PositionPnL(position, currentRate) ==
  IF ToLowerCase(position.side) = "buy"
  THEN Mul(Sub(currentRate, position.entryPrice), Units(position))
  ELSE Mul(Sub(position.entryPrice, currentRate), Units(position))

PositionDetail(position, currentRate) ==
  [id |-> position.id, side |-> position.side, lots |-> position.lots,
   entryPrice |-> position.entryPrice, units |-> Units(position),
   pnl |-> PositionPnL(position, currentRate)]

\* totalPnL after the first k iterations of the forEach
RECURSIVE PnLAfter(_, _, _)
PnLAfter(positions, currentRate, k) ==
  IF k = 0 THEN Zero
  ELSE Add(PnLAfter(positions, currentRate, k - 1), PositionPnL(positions[k], currentRate))

\* totalUnits after the first k iterations of the forEach
RECURSIVE UnitsAfter(_, _)
UnitsAfter(positions, k) ==
  IF k = 0 THEN Zero
  ELSE Add(UnitsAfter(positions, k - 1), Units(positions[k]))

calculateTotalPnL(positions, currentRate) ==
  LET totalUnits == UnitsAfter(positions, Len(positions))
  IN  [totalPnL |-> PnLAfter(positions, currentRate, Len(positions)),
       totalUnits |-> totalUnits,
       totalLots |-> Div(totalUnits, Num(LotSize)),
       positionDetails |->
         [i \in 1..Len(positions) |-> PositionDetail(positions[i], currentRate)]]

\* a variant that forgets the leverage
RequiredMarginUnlevered(positions, currentRate, leverage) ==
  Mul(UnitsAfter(positions, Len(positions)), currentRate)

calculateTotalRequiredMargin(positions, currentRate, leverage) ==
  LET totalUnits == UnitsAfter(positions, Len(positions))
      notionalValue == Mul(totalUnits, currentRate)
  IN  Div(notionalValue, leverage)

\* a variant without the requiredMargin > 0 guard
MarginLevelUnguarded(equity, requiredMargin) ==
  Mul(Div(equity, requiredMargin), Num(100))

MarginLevelOf(equity, requiredMargin) ==
  IF Gt(requiredMargin, Zero) THEN Mul(Div(equity, requiredMargin), Num(100)) ELSE Zero

\* the object returned, from the values of the constants pnlInfo, requiredMargin and equity
MarginLevelResult(rate, pnlInfo, requiredMargin, equity) ==
  [rate |-> rate,
   totalPnL |-> pnlInfo.totalPnL,
   equity |-> equity,
   requiredMargin |-> requiredMargin,
   marginLevel |-> MarginLevelOf(equity, requiredMargin),
   positionDetails |-> pnlInfo.positionDetails,
   totalLots |-> pnlInfo.totalLots,
   totalUnits |-> pnlInfo.totalUnits]

\* equity from the value of the constant pnlInfo
MarginLevelWithPnL(cfg, rate, pnlInfo) ==
  Call2(LAMBDA requiredMargin, equity : MarginLevelResult(rate, pnlInfo, requiredMargin, equity),
        calculateTotalRequiredMargin(cfg.positions, rate, cfg.settings.leverage),
        Add(cfg.account.balance, pnlInfo.totalPnL))

calculateMarginLevelAtRate(cfg, rate) ==
  Call1(LAMBDA pnlInfo : MarginLevelWithPnL(cfg, rate, pnlInfo),
        calculateTotalPnL(cfg.positions, rate))

\* a variant that sums entryPrice x lots
RECURSIVE EntryValueInLots(_, _)
EntryValueInLots(positions, k) ==
  IF k = 0 THEN Zero
  ELSE Add(EntryValueInLots(positions, k - 1), Mul(positions[k].entryPrice, positions[k].lots))

\* totalEntryValue after the first k iterations of the forEach
RECURSIVE EntryValueAfter(_, _)
EntryValueAfter(positions, k) ==
  IF k = 0 THEN Zero
  ELSE Add(EntryValueAfter(positions, k - 1), Mul(positions[k].entryPrice, Units(positions[k])))

\* a variant that looks at the first position only
firstIsBuy(positions) ==
  Len(positions) = 0 \/ ToLowerCase(positions[1].side) = "buy"

allBuyPositions(positions) ==
  \A i \in 1..Len(positions) : ToLowerCase(positions[i].side) = "buy"

\* a variant that takes every position that is no buy for a sell, as calculateTotalPnL does
allNotBuyPositions(positions) ==
  \A i \in 1..Len(positions) : ToLowerCase(positions[i].side) # "buy"

allSellPositions(positions) ==
  \A i \in 1..Len(positions) : ToLowerCase(positions[i].side) = "sell"

MixedWarning == "mixed positions: critical levels cannot be computed"

\* a variant that lets a coefficient of exactly zero through
NonZeroBelowEpsilon(coefficient) ==
  coefficient # Zero /\ Lt(Abs(coefficient), Epsilon)

\* Math.abs(coefficient) < 1e-10
BelowEpsilon(coefficient) == Lt(Abs(coefficient), Epsilon)

\* variants with the sign of the target term flipped
BuyCoefficientPlus(totalUnits, targetMarginLevel, leverage) ==
  Mul(totalUnits, Add(Num(1), Div(targetMarginLevel, Mul(leverage, Num(100)))))

SellCoefficientMinus(totalUnits, targetMarginLevel, leverage) ==
  Mul(totalUnits, Sub(Num(1), Div(targetMarginLevel, Mul(leverage, Num(100)))))

BuyCoefficient(totalUnits, targetMarginLevel, leverage) ==
  Mul(totalUnits, Sub(Num(1), Div(targetMarginLevel, Mul(leverage, Num(100)))))

SellCoefficient(totalUnits, targetMarginLevel, leverage) ==
  Mul(totalUnits, Add(Num(1), Div(targetMarginLevel, Mul(leverage, Num(100)))))

\* a variant that divides without looking at the coefficient
SolveUnchecked(constant, coefficient) == Div(constant, coefficient)

SolveLinear(constant, coefficient) ==
  IF BelowEpsilon(coefficient) THEN Null ELSE Div(constant, coefficient)

\* the value returned and the lines written to the console
findCriticalRate(cfg, targetMarginLevel) ==
  LET positions == cfg.positions
      leverage == cfg.settings.leverage
      balance == cfg.account.balance
      totalUnits == UnitsAfter(positions, Len(positions))
      totalEntryValue == EntryValueAfter(positions, Len(positions))
  IN  IF ~allBuyPositions(positions) /\ ~allSellPositions(positions)
      THEN [ret |-> Null, log |-> <<MixedWarning>>]
      ELSE IF allBuyPositions(positions)
      THEN [ret |-> SolveLinear(Sub(totalEntryValue, balance),
                                BuyCoefficient(totalUnits, targetMarginLevel, leverage)),
            log |-> <<>>]
      ELSE IF allSellPositions(positions)
      THEN [ret |-> SolveLinear(Add(balance, totalEntryValue),
                                SellCoefficient(totalUnits, targetMarginLevel, leverage)),
            log |-> <<>>]
      ELSE [ret |-> Null, log |-> <<>>]


(***************************************************************************)
(* server.js and displayUsdJpyAnalysisTable: what a scan reports           *)
(***************************************************************************)
getRiskLevel(marginLevel) ==
  IF Le(marginLevel, Num(50)) THEN "danger"
  ELSE IF Le(marginLevel, Num(100)) THEN "warning"
  ELSE IF Le(marginLevel, Num(200)) THEN "caution"
  ELSE "safe"

\* the status column of the table (the source's labels are Japanese:
\* kyousei-kessai, keikoku, chuui, yaya-anzen, anzen)
TableStatus(marginLevel) ==
  IF Le(marginLevel, Num(50)) THEN "forced-liquidation"
  ELSE IF Le(marginLevel, Num(100)) THEN "warning"
  ELSE IF Le(marginLevel, Num(150)) THEN "caution"
  ELSE IF Le(marginLevel, Num(200)) THEN "fairly-safe"
  ELSE "safe"

\* one element of analysisResults in GET /api/fx-analysis
ServerRow(analysis, rate) ==
  [rate |-> ToFixed(rate, 2),
   marginLevel |-> ToFixed(analysis.marginLevel, 2),
   totalPnL |-> Round(analysis.totalPnL),
   equity |-> Round(analysis.equity),
   requiredMargin |-> Round(analysis.requiredMargin),
   riskLevel |-> getRiskLevel(analysis.marginLevel)]

\* one element of results in displayUsdJpyAnalysisTable, with the status printed beside it
TableRow(analysis, rate) ==
  [rate |-> analysis.rate,
   marginLevel |-> analysis.marginLevel,
   totalPnL |-> analysis.totalPnL,
   equity |-> analysis.equity,
   requiredMargin |-> analysis.requiredMargin,
   riskLevel |-> TableStatus(analysis.marginLevel)]

\* JavaScript truthiness of a number or null
Truthy(x) == x # Null /\ x # Zero /\ x # NonFinite

\* marginCall100 ? parseFloat(marginCall100.toFixed(2)) : null, and the table's
\* "if (marginCall100) console.log(... toFixed(2) ...)", Null standing for no line
ReportedCritical(x) == Call1(LAMBDA v : IF Truthy(v) THEN ToFixed(v, 2) ELSE Null, x)

\* response.currentAnalysis from the value of the constant currentAnalysis
ReportedAnalysis(currentPrice, currentAnalysis) ==
  [rate |-> currentPrice,
   totalPnL |-> Round(currentAnalysis.totalPnL),
   marginLevel |-> ToFixed(currentAnalysis.marginLevel, 2),
   equity |-> Round(currentAnalysis.equity),
   requiredMargin |-> Round(currentAnalysis.requiredMargin)]

CurrentAnalysis(cfg) ==
  Call1(LAMBDA a : ReportedAnalysis(cfg.currentPrice, a),
        calculateMarginLevelAtRate(cfg, cfg.currentPrice))

\* what follows the loop: the critical levels and the analysis at the current price
Summary(cfg) ==
  [error |-> "none",
   criticalLevels |->
     [marginCall100 |-> ReportedCritical(findCriticalRate(cfg, Num(100)).ret),
      stopOut50 |-> ReportedCritical(findCriticalRate(cfg, Num(50)).ret)],
   currentAnalysis |-> CurrentAnalysis(cfg)]

(***************************************************************************)
(* State                                                                   *)
(***************************************************************************)
VARIABLES
  config,          \* the parsed fx-usdjpy-config.json: account, positions, settings, currentPrice
  target,          \* targetMarginLevel of the last direct findCriticalRate call, Null before any
  critical,        \* what that call returned
  console,         \* the warnings the last call or handler wrote to the console
  snapshot,        \* what the last direct calculateMarginLevelAtRate call returned
  pc,              \* where the scanning handler stands: "idle", "loop" or "done"
  handler,         \* "table" (displayUsdJpyAnalysisTable) or "server" (GET /api/fx-analysis)
  scanRate,        \* the loop variable rate
  analysisResults, \* the rows pushed so far
  response,        \* what the handler reported after the loop
  panel,           \* the state of the ConfigPanel component, Closed while it is not shown
  loan,            \* the arguments of the calculateYearlyBalance call under way
  loanPc,          \* where that call stands: "idle", "month" (the inner loop) or "done"
  year,            \* its loop variables year and month
  month,
  remainingBalance,
  yearlyPrincipal,
  yearlyInterest,
  yearlyData,      \* the rows pushed so far
  deduction,       \* the last calculateLoanDeduction call: its arguments and what it returned
  selection,       \* the last calculateFromConfig call: its arguments and how it ended
  requests,        \* the HTTP requests on their way to the server
  responses,       \* the HTTP responses on their way to the FXAnalyzer
  issued,          \* the number of requests issued so far
  data,            \* FXAnalyzer: the state data, what is displayed
  loading,         \* FXAnalyzer: the state loading
  showConfig,      \* FXAnalyzer: the state showConfig, whether the ConfigPanel is shown
  refreshing,      \* FXAnalyzer: the state refreshing
  toast,           \* FXAnalyzer: the state toast
  timers,          \* the deadlines of the pending timeouts set by showToast
  toastTimer,      \* the deadline of the pending timeout of the Toast component, if any
  now              \* the time in milliseconds

solverVars == <<target, critical, snapshot>>
scanVars == <<pc, handler, scanRate, analysisResults, response>>
analysisVars ==
  <<target, critical, console, snapshot, pc, handler, scanRate, analysisResults, response>>
loanVars ==
  <<loan, loanPc, year, month, remainingBalance, yearlyPrincipal, yearlyInterest, yearlyData,
    deduction, selection>>
webVars ==
  <<requests, responses, issued, data, loading, showConfig, refreshing, toast, timers,
    toastTimer, now>>

vars ==
  <<config, target, critical, console, snapshot, pc, handler, scanRate, analysisResults, response,
    panel, loan, loanPc, year, month, remainingBalance, yearlyPrincipal, yearlyInterest,
    yearlyData, deduction, selection, requests, responses, issued, data, loading, showConfig,
    refreshing, toast, timers, toastTimer, now>>

(***************************************************************************)
(* Inputs                                                                  *)
(***************************************************************************)
MaxPositions == 2
MaxSnapshots == 5

Balances == {Num(1000000), Num(15000000), Num(20000000)}
Leverages == {Num(1), Num(25)}
Targets == {Num(-100), Num(50), Num(100), Num(2500)}
Rates == {Num(-10), Num(0), Num(150)}

Position(side, lots, entryPrice) ==
  [side |-> side, lots |-> lots, entryPrice |-> entryPrice]

PositionPool ==
  {Position("buy", Num(10), Num(150)), Position("Buy", Num(1), Num(100)),
   Position("sell", Num(10), Num(150)), Position("sell", Num(1), Num(100))}

\* positions far below one currency unit, held on an account without balance
MicroPool ==
  {Position("buy", Sci(1, -15), Num(150)), Position("sell", Sci(1, -15), Num(150))}

\* the positions of the scanned books; the config panel stores a lot size of 0
\* when its field does not parse
ScanPool ==
  {Position("buy", Num(10), Num(150)), Position("sell", Num(10), Num(150)),
   Position("buy", Zero, Num(150))}

\* the position lists of at most MaxPositions entries, ids numbered in order
PositionLists(pool) ==
  UNION {
    {[i \in 1..k |-> [id |-> i, side |-> f[i].side, lots |-> f[i].lots,
                      entryPrice |-> f[i].entryPrice]] : f \in [1..k -> pool]} :
    k \in 0..MaxPositions}

Analysis(minRate, maxRate, step) == [minRate |-> minRate, maxRate |-> maxRate, step |-> step]

DefaultAnalysis == Analysis(Num(140), Num(141), Frac(1, 2))

\* settings.analysis of the scanned books: every finite scan among them has at most
\* MaxSnapshots rows
AnalysisSettings ==
  {DefaultAnalysis,
   Analysis(Num(140), Num(141), Frac(2, 5)),
   Analysis(Num(130), Num(160), Num(10)),
   Analysis(Num(-1), Num(1), Num(1)),
   Analysis(Num(1), Frac(101, 100), Frac(4, 1000)),
   Analysis(Num(141), Num(140), Frac(1, 2)),
   Analysis(Num(140), Num(141), Zero),
   Analysis(Num(140), Num(141), Frac(-1, 2))}

Config(balance, positions, leverage, analysis, currentPrice) ==
  [account |-> [balance |-> balance],
   positions |-> positions,
   currentPrice |-> currentPrice,
   settings |-> [leverage |-> leverage, analysis |-> analysis]]

Books ==
  {Config(b, ps, l, DefaultAnalysis, Num(150)) :
     b \in Balances, ps \in PositionLists(PositionPool), l \in Leverages}

MicroBooks ==
  {Config(Zero, ps, l, DefaultAnalysis, Num(150)) :
     ps \in PositionLists(MicroPool), l \in Leverages}

ScanBooks ==
  {Config(Num(1000000), ps, Num(25), a, Num(150)) :
     ps \in PositionLists(ScanPool), a \in AnalysisSettings}

\* books of a single long position, scanned over ascending positive rates
SinglePool == {Position("buy", Num(10), Num(150)), Position("Buy", Num(1), Num(100))}

AscendingSettings ==
  {Analysis(Num(130), Num(160), Num(10)), Analysis(Num(40), Num(60), Num(10))}

SingleBooks ==
  {Config(b, <<[id |-> 1, side |-> p.side, lots |-> p.lots, entryPrice |-> p.entryPrice]>>,
          l, a, Num(150)) :
     b \in Balances, p \in SinglePool, l \in Leverages, a \in AscendingSettings}

NoSnapshot == [rate |-> Null]
NoResponse == [error |-> "pending"]

InitCalls ==
  /\ target = Null
  /\ critical = Null
  /\ console = <<>>
  /\ snapshot = NoSnapshot

\* the ConfigPanel is not shown
Closed == [open |-> FALSE]

InitPanel == panel = Closed

\* no loan call made yet
NoLoan == [years |-> 0]
NoDeduction == [called |-> FALSE]
NoSelection == [called |-> FALSE]

\* JavaScript null for the states data and toast
NoData == [loaded |-> FALSE]
NoToast == [shown |-> FALSE]

\* the FXAnalyzer is not mounted, nothing is on its way
InitWeb ==
  /\ requests = {}
  /\ responses = {}
  /\ issued = 0
  /\ data = NoData
  /\ loading = TRUE
  /\ showConfig = FALSE
  /\ refreshing = FALSE
  /\ toast = NoToast
  /\ timers = {}
  /\ toastTimer = {}
  /\ now = 0

InitLoan ==
  /\ loan = NoLoan
  /\ loanPc = "idle"
  /\ year = 0
  /\ month = 0
  /\ remainingBalance = Zero
  /\ yearlyPrincipal = Zero
  /\ yearlyInterest = Zero
  /\ yearlyData = <<>>
  /\ deduction = NoDeduction
  /\ selection = NoSelection

InitScan ==
  /\ pc = "idle"
  /\ handler = "none"
  /\ scanRate = Null
  /\ analysisResults = <<>>
  /\ response = NoResponse

Init ==
  /\ config \in Books \cup MicroBooks
  /\ InitCalls
  /\ InitScan
  /\ InitPanel
  /\ InitLoan
  /\ InitWeb

ScanInit ==
  /\ config \in ScanBooks
  /\ InitCalls
  /\ InitScan
  /\ InitPanel
  /\ InitLoan
  /\ InitWeb

(***************************************************************************)
(* Operations: direct calls of the exported functions                      *)
(***************************************************************************)
\* the call has returned r
Returned(targetMarginLevel, r) ==
  /\ target' = targetMarginLevel
  /\ critical' = r.ret
  /\ console' = r.log
  /\ UNCHANGED <<config, snapshot, panel>>
  /\ UNCHANGED loanVars
  /\ UNCHANGED webVars
  /\ UNCHANGED scanVars

FindCriticalRate(targetMarginLevel) ==
  Returned(targetMarginLevel, findCriticalRate(config, targetMarginLevel))

CalculateMarginLevelAtRate(rate) ==
  /\ snapshot' = calculateMarginLevelAtRate(config, rate)
  /\ UNCHANGED <<config, target, critical, console, panel>>
  /\ UNCHANGED loanVars
  /\ UNCHANGED webVars
  /\ UNCHANGED scanVars

\* the round trip: the book evaluated at the rate the solver returned
EvaluateAtCritical ==
  /\ critical # Null
  /\ CalculateMarginLevelAtRate(critical)

Next ==
  \/ \E t \in Targets : FindCriticalRate(t)
  \/ \E r \in Rates : CalculateMarginLevelAtRate(r)
  \/ EvaluateAtCritical

Spec == Init /\ [][Next]_vars

\* books whose positions carry a side that is neither buy nor sell
OtherSidePool ==
  {Position("long", Num(10), Num(150)), Position("Long", Num(1), Num(100)),
   Position("short", Num(10), Num(150)), Position("buy", Num(10), Num(150))}

OtherSideBooks ==
  {Config(b, ps, l, DefaultAnalysis, Num(150)) :
     b \in Balances, ps \in PositionLists(OtherSidePool), l \in Leverages}

OtherSideInit ==
  /\ config \in OtherSideBooks
  /\ InitCalls
  /\ InitScan
  /\ InitPanel
  /\ InitLoan
  /\ InitWeb

SpecOtherSide == OtherSideInit /\ [][Next]_vars

(***************************************************************************)
(* Operations: the scan of displayUsdJpyAnalysisTable and of               *)
(* GET /api/fx-analysis,                                                   *)
(*   for (let rate = minRate; rate <= maxRate; rate += step) { ... }       *)
(* one iteration a step.  A scan that never leaves the loop is followed    *)
(* for MaxSnapshots rows.                                                  *)
(***************************************************************************)
ScanRow(h, analysis, rate) ==
  Call1(LAMBDA a : IF h = "server" THEN ServerRow(a, rate) ELSE TableRow(a, rate), analysis)

ScanStart(h) ==
  /\ pc = "idle"
  /\ pc' = "loop"
  /\ handler' = h
  /\ scanRate' = config.settings.analysis.minRate
  /\ analysisResults' = <<>>
  /\ UNCHANGED <<config, console, response, panel>>
  /\ UNCHANGED loanVars
  /\ UNCHANGED webVars
  /\ UNCHANGED solverVars

ScanStep ==
  /\ pc = "loop"
  /\ Le(scanRate, config.settings.analysis.maxRate)
  /\ Len(analysisResults) < MaxSnapshots
  /\ analysisResults' =
       Append(analysisResults,
              ScanRow(handler, calculateMarginLevelAtRate(config, scanRate), scanRate))
  /\ scanRate' = Add(scanRate, config.settings.analysis.step)
  /\ UNCHANGED <<config, console, response, pc, handler, panel>>
  /\ UNCHANGED loanVars
  /\ UNCHANGED webVars
  /\ UNCHANGED solverVars

ScanFinish ==
  /\ pc = "loop"
  /\ ~Le(scanRate, config.settings.analysis.maxRate)
  /\ pc' = "done"
  /\ response' = Summary(config)
  /\ console' = findCriticalRate(config, Num(100)).log \o findCriticalRate(config, Num(50)).log
  /\ UNCHANGED <<config, handler, scanRate, analysisResults, panel>>
  /\ UNCHANGED loanVars
  /\ UNCHANGED webVars
  /\ UNCHANGED solverVars

ScanNext ==
  \/ \E h \in {"table", "server"} : ScanStart(h)
  \/ ScanStep
  \/ ScanFinish
  \/ \E r \in Rates : CalculateMarginLevelAtRate(r)

SpecScan == ScanInit /\ [][ScanNext]_vars

SingleInit ==
  /\ config \in SingleBooks
  /\ InitCalls
  /\ InitScan
  /\ InitPanel
  /\ InitLoan
  /\ InitWeb

SpecSingle == SingleInit /\ [][ScanNext]_vars

\* the handler is synchronous: once called it runs its loop, one iteration after the
\* other, and what follows the loop, without being suspended
SpecScanLive == SpecScan /\ WF_vars(ScanStep) /\ WF_vars(ScanFinish)

(***************************************************************************)
(* The ConfigPanel component and PUT /api/fx-config.  The text of a form   *)
(* field is the sequence of its characters; an id is written by its        *)
(* number, n standing for the string `pos${n}`.                            *)
(***************************************************************************)
DigitChars == <<"0", "1", "2", "3", "4", "5", "6", "7", "8", "9">>

IsDigit(c) == \E i \in 1..10 : DigitChars[i] = c
DigitValue(c) == (CHOOSE i \in 1..10 : DigitChars[i] = c) - 1

\* the first index from i on that holds no decimal digit
RECURSIVE DigitsEnd(_, _)
DigitsEnd(s, i) == IF i <= Len(s) /\ IsDigit(s[i]) THEN DigitsEnd(s, i + 1) ELSE i

\* the decimal value of the digits s[i], ..., s[j - 1]
RECURSIVE DigitsValue(_, _, _)
DigitsValue(s, i, j) ==
  IF j <= i THEN 0 ELSE DigitsValue(s, i, j - 1) * 10 + DigitValue(s[j - 1])

RECURSIVE SkipSpace(_, _)
SkipSpace(s, i) == IF i <= Len(s) /\ s[i] = " " THEN SkipSpace(s, i + 1) ELSE i

\* the decimal literal that starts at index i, with the sign given: digits, then
\* optionally a point and digits; NaN when neither part has a digit
ParseDecimal(s, i, sign) ==
  LET intEnd == DigitsEnd(s, i)
      point == intEnd <= Len(s) /\ s[intEnd] = "."
      fracStart == IF point THEN intEnd + 1 ELSE intEnd
      fracEnd == DigitsEnd(s, fracStart)
  IN IF intEnd = i /\ fracEnd = fracStart
     THEN NonFinite
     ELSE Frac(sign * (DigitsValue(s, i, intEnd) * Pow10(fracEnd - fracStart)
                       + DigitsValue(s, fracStart, fracEnd)),
               Pow10(fracEnd - fracStart))

\* parseFloat: leading blanks skipped, an optional sign, the longest decimal literal
\* that follows (what comes after it is ignored), NaN when there is none.  The texts
\* of the model hold no exponent and no "Infinity".
ParseFloat(s) ==
  LET i == SkipSpace(s, 1)
  IN IF i <= Len(s) /\ s[i] = "-" THEN ParseDecimal(s, i + 1, -1)
     ELSE IF i <= Len(s) /\ s[i] = "+" THEN ParseDecimal(s, i + 1, 1)
     ELSE ParseDecimal(s, i, 1)

\* x || 0 on a number: NaN and 0 are falsy
OrZero(x) == IF x = NonFinite \/ x = Zero THEN Zero ELSE x

\* the texts typed into the number fields, and the options of the side select
LotsTexts == {<<>>, <<"1">>, <<"-", "5">>}
PriceTexts == {<<"1", "5", "0">>}
BalanceTexts == {<<"1", "0", "0", "0", "0", "0", "0">>}
SideOptions == {"buy", "sell"}

FieldValues(field) ==
  IF field = "lots" THEN LotsTexts
  ELSE IF field = "side" THEN SideOptions
  ELSE IF field = "balance" THEN BalanceTexts
  ELSE PriceTexts

\* [field]: (field === 'lots' || field === 'entryPrice' || ...) ? parseFloat(value) || 0 : value
FieldValue(field, value) ==
  IF field \in {"lots", "entryPrice"} THEN OrZero(ParseFloat(value)) ELSE value

\* { ...pos, [field]: ... }
WithField(pos, field, value) ==
  IF field = "lots" THEN [pos EXCEPT !.lots = FieldValue(field, value)]
  ELSE IF field = "entryPrice" THEN [pos EXCEPT !.entryPrice = FieldValue(field, value)]
  ELSE [pos EXCEPT !.side = FieldValue(field, value)]

\* id: `pos${config.positions.length + 1}`, side 'buy', lots 1, entryPrice the current price
newPosition(state) ==
  [id |-> Len(state.positions) + 1, side |-> "buy", lots |-> Num(1),
   entryPrice |-> state.currentPrice]

\* positions.filter((_, i) => i !== index)
RECURSIVE Without(_, _)
Without(positions, index) ==
  IF positions = <<>> THEN <<>>
  ELSE IF index = 1 THEN Tail(positions)
  ELSE <<Head(positions)>> \o Without(Tail(positions), index - 1)

\* the body of a PUT /api/fx-config request: has names the members it carries
RequestBody(has, positions, currentPrice, account) ==
  [has |-> has, positions |-> positions, currentPrice |-> currentPrice, account |-> account]

\* saveData of handleSave
SaveData(state) ==
  RequestBody({"account", "currentPrice", "positions"}, state.positions, state.currentPrice,
              [balance |-> state.balance])

\* bodies sent to the endpoint by other clients, their positions with distinct ids
RequestBodies ==
  {RequestBody({}, <<>>, Zero, [balance |-> Zero]),
   RequestBody({"positions"},
               <<[id |-> 1, side |-> "sell", lots |-> Num(-5), entryPrice |-> Num(150)]>>,
               Zero, [balance |-> Zero]),
   RequestBody({"currentPrice", "account"}, <<>>, Num(150), [balance |-> Num(1000000)])}

\* the books the panel is opened on: positions of one kind, ids pos1, pos2, ...
PanelBooks ==
  {Config(Num(1000000), ps, Num(25), DefaultAnalysis, Num(150)) :
     ps \in PositionLists({Position("buy", Num(10), Num(150))})}

PanelInit ==
  /\ config \in PanelBooks
  /\ InitCalls
  /\ InitScan
  /\ InitPanel
  /\ InitLoan
  /\ InitWeb

\* useEffect on data: the panel state is set from the data the server answered
LoadPanel ==
  /\ panel' = [open |-> TRUE, balance |-> config.account.balance,
               currentPrice |-> config.currentPrice, positions |-> config.positions]
  /\ UNCHANGED config
  /\ UNCHANGED analysisVars
  /\ UNCHANGED loanVars
  /\ UNCHANGED webVars

handleAccountChange(field, value) ==
  /\ panel.open
  /\ panel' = IF field = "balance"
              THEN [panel EXCEPT !.balance = OrZero(ParseFloat(value))]
              ELSE [panel EXCEPT !.currentPrice = OrZero(ParseFloat(value))]
  /\ UNCHANGED config
  /\ UNCHANGED analysisVars
  /\ UNCHANGED loanVars
  /\ UNCHANGED webVars

handlePositionChange(index, field, value) ==
  /\ panel.open
  /\ index \in 1..Len(panel.positions)
  /\ panel' = [panel EXCEPT !.positions[index] = WithField(@, field, value)]
  /\ UNCHANGED config
  /\ UNCHANGED analysisVars
  /\ UNCHANGED loanVars
  /\ UNCHANGED webVars

addPosition ==
  /\ panel.open
  /\ Len(panel.positions) < MaxPositions
  /\ panel' = [panel EXCEPT !.positions = Append(@, newPosition(panel))]
  /\ UNCHANGED config
  /\ UNCHANGED analysisVars
  /\ UNCHANGED loanVars
  /\ UNCHANGED webVars

removePosition(index) ==
  /\ panel.open
  /\ index \in 1..Len(panel.positions)
  /\ panel' = [panel EXCEPT !.positions = Without(@, index)]
  /\ UNCHANGED config
  /\ UNCHANGED analysisVars
  /\ UNCHANGED loanVars
  /\ UNCHANGED webVars

\* a variant that replaces the stored object by the one sent
Replaced(stored, sent) == sent

\* { ...stored, ...sent }
Spread(stored, sent) ==
  [k \in DOMAIN stored \cup DOMAIN sent |-> IF k \in DOMAIN sent THEN sent[k] ELSE stored[k]]

\* a variant that resets the price when the body carries none
UpdatedConfigPriceReset(stored, body) ==
  [stored EXCEPT
     !.positions = IF "positions" \in body.has THEN body.positions ELSE @,
     !.currentPrice = IF "currentPrice" \in body.has THEN body.currentPrice ELSE Zero,
     !.account = IF "account" \in body.has THEN Spread(@, body.account) ELSE @]

\* the object the handler of PUT /api/fx-config writes: the members the body carries
\* (positions and account when truthy, currentPrice when not undefined) replace those
\* of the file, the account key by key
UpdatedConfig(stored, body) ==
  [stored EXCEPT
     !.positions = IF "positions" \in body.has THEN body.positions ELSE @,
     !.currentPrice = IF "currentPrice" \in body.has THEN body.currentPrice ELSE @,
     !.account = IF "account" \in body.has THEN Spread(@, body.account) ELSE @]

\* the handler of PUT /api/fx-config on a file that loads
PutFxConfig(body) ==
  /\ config' = UpdatedConfig(config, body)
  /\ UNCHANGED panel
  /\ UNCHANGED analysisVars
  /\ UNCHANGED loanVars
  /\ UNCHANGED webVars

handleSave ==
  /\ panel.open
  /\ PutFxConfig(SaveData(panel))

PanelNext ==
  \/ LoadPanel
  \/ \E field \in {"balance", "currentPrice"} :
       \E value \in FieldValues(field) : handleAccountChange(field, value)
  \/ \E index \in 1..MaxPositions, field \in {"side", "lots", "entryPrice"} :
       \E value \in FieldValues(field) : handlePositionChange(index, field, value)
  \/ addPosition
  \/ \E index \in 1..MaxPositions : removePosition(index)
  \/ handleSave
  \/ \E body \in RequestBodies : PutFxConfig(body)

SpecPanel == PanelInit /\ [][PanelNext]_vars

(***************************************************************************)
(* The server: GET /api/fx-analysis and PUT /api/fx-config, one request    *)
(* handled at a time.  Both handlers are synchronous (readFileSync,        *)
(* writeFileSync), so a handler runs from its first statement to its       *)
(* response before the process takes up the next request.                  *)
(***************************************************************************)
MaxRequests == 4

\* the value of config when loadConfig throws: the file is missing or is no JSON
Unreadable == [unreadable |-> TRUE]

\* then: what the sender does with the response
Request(id, method, body, then) == [id |-> id, method |-> method, body |-> body, then |-> then]

NoBody == RequestBody({}, <<>>, Zero, [balance |-> Zero])

\* status 0: fetch rejected, no response arrived
Response(request, status, result) == [request |-> request, status |-> status, result |-> result]

\* the object GET /api/fx-analysis answers with; the analysis members, which the
\* handler computes from these, are left out
Served(stored) ==
  [loaded |-> TRUE, account |-> stored.account, positions |-> stored.positions,
   currentPrice |-> stored.currentPrice, settings |-> stored.settings]

clientVars == <<data, loading, showConfig, refreshing, toast, timers, toastTimer, now>>

\* what no handler of the server and no other client touches
Elsewhere ==
  /\ UNCHANGED <<panel, clientVars>>
  /\ UNCHANGED analysisVars
  /\ UNCHANGED loanVars

\* app.get('/api/fx-analysis', ...)
FxAnalysisResponse(r) ==
  IF config = Unreadable THEN Response(r, 500, NoData) ELSE Response(r, 200, Served(config))

HandleFxAnalysis(r) ==
  /\ r \in requests
  /\ r.method = "GET"
  /\ requests' = requests \ {r}
  /\ responses' = responses \cup {FxAnalysisResponse(r)}
  /\ UNCHANGED <<config, issued>>
  /\ Elsewhere

\* app.put('/api/fx-config', ...)
HandleFxConfig(r) ==
  /\ r \in requests
  /\ r.method = "PUT"
  /\ requests' = requests \ {r}
  /\ IF config = Unreadable
     THEN /\ responses' = responses \cup {Response(r, 500, NoData)}
          /\ UNCHANGED config
     ELSE /\ config' = UpdatedConfig(config, r.body)
          /\ responses' = responses \cup {Response(r, 200, NoData)}
  /\ UNCHANGED issued
  /\ Elsewhere

\* a request sent by some client
Send(method, body, then) ==
  /\ issued < MaxRequests
  /\ issued' = issued + 1
  /\ requests' = requests \cup {Request(issued + 1, method, body, then)}
  /\ UNCHANGED <<config, responses>>
  /\ Elsewhere

\* the stored account carries a comment beside the balance
ServerBooks ==
  {[Config(Num(1000000), ps, Num(25), DefaultAnalysis, Num(150))
      EXCEPT !.account = [balance |-> Num(1000000), comment |-> "net assets"]] :
     ps \in PositionLists({Position("buy", Num(10), Num(150))})}

\* bodies of PUT requests: price and balance; positions; a comment; nothing
ServerBodies ==
  {RequestBody({"currentPrice", "account"}, <<>>, Num(151), [balance |-> Num(2000000)]),
   RequestBody({"positions"},
               <<[id |-> 1, side |-> "sell", lots |-> Num(1), entryPrice |-> Num(149)]>>,
               Zero, [balance |-> Zero]),
   RequestBody({"account"}, <<>>, Zero, [comment |-> "edited"]),
   NoBody}

ServerInit ==
  /\ config \in ServerBooks \cup {Unreadable}
  /\ InitCalls
  /\ InitScan
  /\ InitPanel
  /\ InitLoan
  /\ InitWeb

ServerNext ==
  \/ \E body \in ServerBodies : Send("PUT", body, "other")
  \/ Send("GET", NoBody, "other")
  \/ \E r \in requests : HandleFxAnalysis(r)
  \/ \E r \in requests : HandleFxConfig(r)

SpecServer == ServerInit /\ [][ServerNext]_vars

(***************************************************************************)
(* The FXAnalyzer component.  An async function is suspended at an await   *)
(* of fetch until the response is there; what it does between two awaits   *)
(* is one step.  The request carries in then what the function goes on     *)
(* with: "mount", "refresh" and "reload" are the loadData calls of the     *)
(* effect, of handleRefresh and of handleConfigSave, "save" is the PUT of  *)
(* handleConfigSave.  originalData is set with data and to an equal value, *)
(* and is not held apart.                                                  *)
(***************************************************************************)
ToastDuration == 5000
TickLength == 2500
MaxTime == 7500

\* a variant that takes every response for a success
AnyStatusOk(a) == TRUE

\* response.ok
Ok(a) == a.status = 200

Toast(message, type) == [shown |-> TRUE, message |-> message, type |-> type, since |-> now]

\* the Toast component: its effect runs again whenever the FXAnalyzer is rendered anew,
\* for onClose is a new function then, and sets a timeout after clearing the old one
ToastEffect(shown) == IF shown = NoToast THEN {} ELSE {now + ToastDuration}

\* showToast: setToast({ message, type }); setTimeout(() => setToast(null), 5000)
showToast(message, type) ==
  /\ toast' = Toast(message, type)
  /\ timers' = timers \cup {now + ToastDuration}
  /\ toastTimer' = ToastEffect(Toast(message, type))

\* a step that calls showToast nowhere
NoShowToast ==
  /\ UNCHANGED <<toast, timers>>
  /\ toastTimer' = ToastEffect(toast)

\* fetch(...)
Fetch(method, body, then) ==
  /\ issued' = issued + 1
  /\ requests' = requests \cup {Request(issued + 1, method, body, then)}

\* what no step of the FXAnalyzer touches
Serverside ==
  /\ UNCHANGED <<config, panel>>
  /\ UNCHANGED analysisVars
  /\ UNCHANGED loanVars

\* the component shows more than the spinner
Rendered == ~(loading /\ data = NoData)

\* useEffect(() => { loadData(); }, [])
Mount ==
  /\ issued = 0
  /\ loading' = TRUE
  /\ Fetch("GET", NoBody, "mount")
  /\ NoShowToast
  /\ UNCHANGED <<responses, data, showConfig, refreshing, now>>
  /\ Serverside

handleRefresh ==
  /\ Rendered
  /\ data # NoData
  /\ ~refreshing
  /\ 0 < issued /\ issued < MaxRequests
  /\ refreshing' = TRUE
  /\ loading' = TRUE
  /\ Fetch("GET", NoBody, "refresh")
  /\ NoShowToast
  /\ UNCHANGED <<responses, data, showConfig, now>>
  /\ Serverside

toggleConfigPanel ==
  /\ Rendered
  /\ 0 < issued
  /\ showConfig' = ~showConfig
  /\ NoShowToast
  /\ UNCHANGED <<requests, responses, issued, data, loading, refreshing, now>>
  /\ Serverside

\* a request is left for the loadData call that follows a successful PUT
handleConfigSave(configData) ==
  /\ Rendered
  /\ showConfig
  /\ issued + 1 < MaxRequests
  /\ Fetch("PUT", configData, "save")
  /\ NoShowToast
  /\ UNCHANGED <<responses, data, loading, showConfig, refreshing, now>>
  /\ Serverside

\* setData(JSON.parse(JSON.stringify(originalData)))
handleConfigCancel ==
  /\ Rendered
  /\ showConfig
  /\ showConfig' = FALSE
  /\ NoShowToast
  /\ UNCHANGED <<requests, responses, issued, data, loading, refreshing, now>>
  /\ Serverside

\* loadData from the response on, and what its caller does after await loadData()
LoadDataResumed(a) ==
  /\ a \in responses
  /\ a.request.method = "GET"
  /\ a.request.then \in {"mount", "refresh", "reload"}
  /\ responses' = responses \ {a}
  /\ loading' = FALSE
  /\ IF Ok(a)
     THEN data' = a.result /\ NoShowToast
     ELSE UNCHANGED data /\ showToast("load failed", "error")
  /\ refreshing' = IF a.request.then = "refresh" THEN FALSE ELSE refreshing
  /\ showConfig' = IF a.request.then = "reload" THEN FALSE ELSE showConfig
  /\ UNCHANGED <<requests, issued, now>>
  /\ Serverside

\* handleConfigSave from the response on, up to its await loadData()
ConfigSaveResumed(a) ==
  /\ a \in responses
  /\ a.request.then = "save"
  /\ responses' = responses \ {a}
  /\ IF Ok(a)
     THEN /\ showToast("saved", "success")
          /\ loading' = TRUE
          /\ Fetch("GET", NoBody, "reload")
     ELSE /\ showToast("save failed", "error")
          /\ UNCHANGED <<loading, requests, issued>>
  /\ UNCHANGED <<data, showConfig, refreshing, now>>
  /\ Serverside

\* the request does not get through: fetch rejects
Rejected(r) ==
  /\ r \in requests
  /\ requests' = requests \ {r}
  /\ responses' = responses \cup {Response(r, 0, NoData)}
  /\ UNCHANGED <<config, issued>>
  /\ Elsewhere

\* the alert's close button: onClose
Dismiss ==
  /\ toast # NoToast
  /\ toast' = NoToast
  /\ toastTimer' = {}
  /\ UNCHANGED <<requests, responses, issued, data, loading, showConfig, refreshing, timers,
                 now>>
  /\ Serverside

Due(deadline) == deadline <= now

\* () => setToast(null), set by showToast
ShowToastTimeout(deadline) ==
  /\ deadline \in timers
  /\ Due(deadline)
  /\ timers' = timers \ {deadline}
  /\ toast' = NoToast
  /\ toastTimer' = {}
  /\ UNCHANGED <<requests, responses, issued, data, loading, showConfig, refreshing, now>>
  /\ Serverside

\* () => { onClose(); }, set by the effect of the Toast component
ToastTimeout(deadline) ==
  /\ deadline \in toastTimer
  /\ Due(deadline)
  /\ toast' = NoToast
  /\ toastTimer' = {}
  /\ UNCHANGED <<requests, responses, issued, data, loading, showConfig, refreshing, timers,
                 now>>
  /\ Serverside

\* time passes; a timeout that is due runs first
Tick ==
  /\ now < MaxTime
  /\ \A deadline \in timers \cup toastTimer : ~Due(deadline)
  /\ now' = now + TickLength
  /\ UNCHANGED <<requests, responses, issued, data, loading, showConfig, refreshing, toast,
                 timers, toastTimer>>
  /\ Serverside

\* what the ConfigPanel hands to onSave
SaveBodies ==
  {SaveData([positions |-> <<>>, currentPrice |-> Num(151), balance |-> Num(1000000)]),
   SaveData([positions |-> <<[id |-> 1, side |-> "sell", lots |-> Num(1),
                              entryPrice |-> Num(149)]>>,
             currentPrice |-> Num(150), balance |-> Num(2000000)])}

AnalyzerNext ==
  \/ Mount
  \/ handleRefresh
  \/ toggleConfigPanel
  \/ \E configData \in SaveBodies : handleConfigSave(configData)
  \/ handleConfigCancel
  \/ \E a \in responses : LoadDataResumed(a)
  \/ \E a \in responses : ConfigSaveResumed(a)
  \/ \E r \in requests : HandleFxAnalysis(r)
  \/ \E r \in requests : HandleFxConfig(r)
  \/ \E r \in requests : Rejected(r)

SpecAnalyzer == ServerInit /\ [][AnalyzerNext]_vars

\* the file loads and every request gets through
ReliableInit ==
  /\ config \in ServerBooks
  /\ InitCalls
  /\ InitScan
  /\ InitPanel
  /\ InitLoan
  /\ InitWeb

ReliableNext ==
  \/ Mount
  \/ handleRefresh
  \/ toggleConfigPanel
  \/ \E configData \in SaveBodies : handleConfigSave(configData)
  \/ handleConfigCancel
  \/ \E a \in responses : LoadDataResumed(a)
  \/ \E a \in responses : ConfigSaveResumed(a)
  \/ \E r \in requests : HandleFxAnalysis(r)
  \/ \E r \in requests : HandleFxConfig(r)

SpecReliable == ReliableInit /\ [][ReliableNext]_vars

\* the FXAnalyzer with its timeouts
ToastNext ==
  \/ AnalyzerNext
  \/ Dismiss
  \/ \E deadline \in timers : ShowToastTimeout(deadline)
  \/ \E deadline \in toastTimer : ToastTimeout(deadline)
  \/ Tick

SpecToast == ServerInit /\ [][ToastNext]_vars

(***************************************************************************)
(* The loan calculator: calculateLoanDeduction, and calculateYearlyBalance *)
(* one month of its inner loop a step                                      *)
(***************************************************************************)
\* Math.max(0, x) and Math.min(x, y)
Max0(x) == IF LtNumbers(x, Zero) THEN Zero ELSE x
Min(x, y) == IF LtNumbers(y, x) THEN y ELSE x

IsZero(v) == v = Zero \/ v = DoubleZero

\* Math.pow(x, n) for a natural number n, by repeated multiplication
RECURSIVE Power(_, _)
Power(x, n) == IF n = 0 THEN Num(1) ELSE MulNumbers(Power(x, n - 1), x)

\* loanAmount * (monthlyRate * Math.pow(1 + monthlyRate, numberOfPayments))
\*   / (Math.pow(1 + monthlyRate, numberOfPayments) - 1)
AnnuityPayment(loanAmount, rate, power) ==
  DivNumbers(MulNumbers(loanAmount, MulNumbers(rate, power)), SubNumbers(power, Num(1)))

\* a variant that spreads the loan over the years, not the months
calculateMonthlyPaymentPerYear(loanAmount, annualRate, years) ==
  DivNumbers(loanAmount, Num(years))

calculateMonthlyPayment(loanAmount, annualRate, years) ==
  IF IsZero(DivNumbers(DivNumbers(annualRate, Num(100)), Num(12)))
  THEN DivNumbers(loanAmount, Num(years * 12))
  ELSE AnnuityPayment(loanAmount, DivNumbers(DivNumbers(annualRate, Num(100)), Num(12)),
                      Power(AddNumbers(Num(1),
                                       DivNumbers(DivNumbers(annualRate, Num(100)), Num(12))),
                            years * 12))

\* a variant that takes 0.7% of the balance itself
calculateLoanDeductionUncapped(balance, y, hasDeduction) ==
  IF ~hasDeduction \/ y > 13 THEN Zero ELSE MulNumbers(balance, Frac(7, 1000))

calculateLoanDeduction(balance, y, hasDeduction) ==
  IF ~hasDeduction \/ y > 13
  THEN Zero
  ELSE MulNumbers(Min(balance, Num(45000000)), Frac(7, 1000))

\* the call and what it returned
DeductionCall(balance, y, hasDeduction) ==
  [called |-> TRUE, remainingBalance |-> balance, year |-> y, hasDeduction |-> hasDeduction,
   ret |-> calculateLoanDeduction(balance, y, hasDeduction)]

\* annualRate / 100 / 12
monthlyRate(annualRate) == DivNumbers(DivNumbers(annualRate, Num(100)), Num(12))

interestPayment(balance, annualRate) == MulNumbers(balance, monthlyRate(annualRate))

principalPayment(monthlyPayment, balance, annualRate) ==
  SubNumbers(monthlyPayment, interestPayment(balance, annualRate))

\* the row pushed at the end of a year
YearRow(args, y, principal, interest, balance) ==
  [year |-> y,
   yearlyPayment |-> MulNumbers(args.monthlyPayment, Num(12)),
   yearlyPrincipal |-> principal,
   yearlyInterest |-> interest,
   remainingBalance |-> Max0(balance),
   loanDeduction |-> calculateLoanDeduction(Max0(balance), y, args.hasDeduction)]

LoanArgs(loanAmount, monthlyPayment, annualRate, years, hasDeduction) ==
  [loanAmount |-> loanAmount, monthlyPayment |-> monthlyPayment, annualRate |-> annualRate,
   years |-> years, hasDeduction |-> hasDeduction]

\* the loans of the model: repaid without interest over 15 and 16 years, interest only,
\* repaid within the first year, a payment below the interest, and a term of no year
Loans ==
  {LoanArgs(Num(60000000), Num(100000), Zero, 15, h) : h \in BOOLEAN} \cup
  {LoanArgs(Num(48000000), Num(250000), Zero, 16, h) : h \in BOOLEAN} \cup
  {LoanArgs(Num(50000000), Num(50000000), Num(1200), 15, h) : h \in BOOLEAN} \cup
  {LoanArgs(Num(30000000), Num(3200000), Zero, 15, h) : h \in BOOLEAN} \cup
  {LoanArgs(Num(50000000), Num(49000000), Num(1200), 2, h) : h \in BOOLEAN} \cup
  {LoanArgs(Num(1000000), Num(100000), Zero, 0, h) : h \in BOOLEAN}

\* the arguments of the direct calls of calculateLoanDeduction
DeductionBalances ==
  {Num(-1000000), Zero, Num(44400000), Num(45000000), Num(60000000)}
DeductionYears == {1, 13, 14}

LoanInit ==
  /\ config \in {Config(Num(1000000), <<>>, Num(25), DefaultAnalysis, Num(150))}
  /\ InitCalls
  /\ InitScan
  /\ InitPanel
  /\ InitLoan
  /\ InitWeb

\* a direct call, made while no calculateYearlyBalance call is under way
CalculateLoanDeduction(balance, y, hasDeduction) ==
  /\ loanPc = "idle"
  /\ deduction' = DeductionCall(balance, y, hasDeduction)
  /\ UNCHANGED <<loan, loanPc, year, month, remainingBalance, yearlyPrincipal, yearlyInterest,
                 yearlyData>>
  /\ UNCHANGED <<config, panel, selection>>
  /\ UNCHANGED analysisVars
  /\ UNCHANGED webVars

\* the call, up to the first test of the inner loop
CalculateYearlyBalance(args) ==
  /\ loanPc = "idle"
  /\ loan' = args
  /\ remainingBalance' = args.loanAmount
  /\ yearlyData' = <<>>
  /\ year' = 1
  /\ month' = 1
  /\ yearlyPrincipal' = Zero
  /\ yearlyInterest' = Zero
  /\ loanPc' = IF 1 <= args.years THEN "month" ELSE "done"
  /\ UNCHANGED deduction
  /\ UNCHANGED <<config, panel>>
  /\ UNCHANGED analysisVars
  /\ UNCHANGED webVars

\* a variant that takes the whole payment off the balance, the interest with it
BalanceLessPayment(args, balance) == SubNumbers(balance, args.monthlyPayment)

\* remainingBalance after the month's payment, before the adjustment
BalanceAfter(args, balance) ==
  SubNumbers(balance, principalPayment(args.monthlyPayment, balance, args.annualRate))

\* one iteration of for (let month = 1; month <= 12; month++)
Month ==
  /\ loanPc = "month"
  /\ month <= 12
  /\ ~LeNumbers(remainingBalance, Zero)
  /\ yearlyInterest' =
       AddNumbers(yearlyInterest, interestPayment(remainingBalance, loan.annualRate))
  /\ yearlyPrincipal' =
       IF LtNumbers(BalanceAfter(loan, remainingBalance), Zero)
       THEN AddNumbers(AddNumbers(yearlyPrincipal,
                    principalPayment(loan.monthlyPayment, remainingBalance, loan.annualRate)),
                BalanceAfter(loan, remainingBalance))
       ELSE AddNumbers(yearlyPrincipal,
                principalPayment(loan.monthlyPayment, remainingBalance, loan.annualRate))
  /\ remainingBalance' =
       IF LtNumbers(BalanceAfter(loan, remainingBalance), Zero)
       THEN Zero
       ELSE BalanceAfter(loan, remainingBalance)
  /\ month' = month + 1
  /\ UNCHANGED <<loan, loanPc, year, yearlyData, deduction>>
  /\ UNCHANGED <<config, panel, selection>>
  /\ UNCHANGED analysisVars
  /\ UNCHANGED webVars

\* the inner loop left: the year's row pushed, then the break or the next year
PushYear ==
  /\ loanPc = "month"
  /\ month > 12 \/ LeNumbers(remainingBalance, Zero)
  /\ yearlyData' =
       Append(yearlyData,
              YearRow(loan, year, yearlyPrincipal, yearlyInterest, remainingBalance))
  /\ deduction' = DeductionCall(Max0(remainingBalance), year, loan.hasDeduction)
  /\ IF LeNumbers(remainingBalance, Zero) \/ year + 1 > loan.years
     THEN /\ loanPc' = "done"
          /\ UNCHANGED <<year, month, yearlyPrincipal, yearlyInterest>>
     ELSE /\ year' = year + 1
          /\ month' = 1
          /\ yearlyPrincipal' = Zero
          /\ yearlyInterest' = Zero
          /\ UNCHANGED loanPc
  /\ UNCHANGED <<loan, remainingBalance>>
  /\ UNCHANGED <<config, panel, selection>>
  /\ UNCHANGED analysisVars
  /\ UNCHANGED webVars

\* displayLoanCalculation: the payment computed, then the table with that payment
DisplayLoanCalculation(loanAmount, annualRate, years, hasDeduction) ==
  CalculateYearlyBalance(
    LoanArgs(loanAmount, calculateMonthlyPayment(loanAmount, annualRate, years), annualRate,
             years, hasDeduction))

\* the loans displayed: amount, annual rate and years.  Those without interest are
\* computed in doubles; the one at 1200% a year, a monthly rate of 1, in exact numbers
DisplayedLoans ==
  {<<ToDouble(Num(30000000)), DoubleZero, 35>>,
   <<ToDouble(Num(1000000)), DoubleZero, 2>>,
   <<ToDouble(Num(1200000)), DoubleZero, 1>>,
   <<ToDouble(Num(50000000)), DoubleZero, 14>>,
   <<Num(4095), Num(1200), 1>>}

ScheduleNext ==
  \/ \E l \in DisplayedLoans, h \in BOOLEAN :
       DisplayLoanCalculation(l[1], l[2], l[3], h) /\ UNCHANGED selection
  \/ Month
  \/ PushYear

SpecSchedule == LoanInit /\ [][ScheduleNext]_vars

(***************************************************************************)
(* calculateFromConfig                                                     *)
(***************************************************************************)
Scenario(name, loanAmount, annualRate, years, hasDeduction) ==
  [name |-> name, loanAmount |-> loanAmount, annualRate |-> annualRate, years |-> years,
   hasDeduction |-> hasDeduction]

LoanConfig(defaultConfig, scenarios) ==
  [defaultConfig |-> defaultConfig, scenarios |-> scenarios]

\* the parsed loan-config.json: with two scenarios and with none
LoanConfigs ==
  {LoanConfig(Scenario("default", ToDouble(Num(1200000)), DoubleZero, 1, FALSE),
              <<Scenario("basic", Num(4095), Num(1200), 1, FALSE),
                Scenario("long", ToDouble(Num(1000000)), DoubleZero, 2, TRUE)>>),
   LoanConfig(Scenario("default", ToDouble(Num(1200000)), DoubleZero, 1, FALSE), <<>>)}

\* a selector: the result of typeof and, for a string or a number, the value
Selector(type, value) == [type |-> type, value |-> value]

\* null, undefined (no argument), true, {}
OtherSelectors == {Selector(type, Null) : type \in {"null", "undefined", "boolean", "object"}}
StringSelectors == {Selector("string", name) : name \in {"basic", "long", "missing"}}
\* NonFinite stands for NaN
NumberSelectors ==
  {Selector("number", v) : v \in {Num(-1), Zero, Num(1), Num(2), Frac(1, 2), NonFinite}}

\* the parameter scenarioSelector = null: undefined takes the default
Defaulted(selector) == IF selector.type = "undefined" THEN Selector("null", Null) ELSE selector

\* config.scenarios.find(s => s.name === scenarioSelector)
Found(scenarios, name) ==
  IF \E i \in 1..Len(scenarios) : scenarios[i].name = name
  THEN [found |-> TRUE,
        scenario |-> scenarios[CHOOSE i \in 1..Len(scenarios) :
                                 /\ scenarios[i].name = name
                                 /\ \A j \in 1..(i - 1) : scenarios[j].name # name]]
  ELSE [found |-> FALSE]

IsInteger(v) == Num(Floor(v)) = v

Selected(selectedConfig) == [outcome |-> "selected", selectedConfig |-> selectedConfig]
Failed(outcome) == [outcome |-> outcome]

\* the branches of calculateFromConfig up to the call of displayLoanCalculation:
\* config.scenarios[x] is undefined for an x that is no index, and reading its name
\* throws a TypeError
SelectedConfig(cfg, selector) ==
  IF selector.type = "null" THEN Selected(cfg.defaultConfig)
  ELSE IF selector.type = "string"
  THEN IF Found(cfg.scenarios, selector.value).found
       THEN Selected(Found(cfg.scenarios, selector.value).scenario)
       ELSE Failed("error")
  ELSE IF selector.type = "number"
  THEN IF LeNumbers(Zero, selector.value) /\ LtNumbers(selector.value, Num(Len(cfg.scenarios)))
       THEN IF IsInteger(selector.value)
            THEN Selected(cfg.scenarios[Floor(selector.value) + 1])
            ELSE Failed("TypeError")
       ELSE Failed("error")
  ELSE Failed("error")

\* the call with its outcome r
FromConfigCalled(cfg, selector, r) ==
  /\ loanPc = "idle"
  /\ selection' = [called |-> TRUE, config |-> cfg, selector |-> selector,
                   outcome |-> r.outcome]
  /\ IF r.outcome = "selected"
     THEN DisplayLoanCalculation(r.selectedConfig.loanAmount, r.selectedConfig.annualRate,
                                 r.selectedConfig.years, r.selectedConfig.hasDeduction)
     ELSE /\ UNCHANGED <<loan, loanPc, year, month, remainingBalance, yearlyPrincipal,
                         yearlyInterest, yearlyData, deduction>>
          /\ UNCHANGED <<config, panel>>
          /\ UNCHANGED analysisVars
          /\ UNCHANGED webVars

CalculateFromConfig(cfg, selector) ==
  FromConfigCalled(cfg, selector, SelectedConfig(cfg, Defaulted(selector)))

FromConfigNext ==
  \/ \E cfg \in LoanConfigs, selector \in OtherSelectors : CalculateFromConfig(cfg, selector)
  \/ \E cfg \in LoanConfigs, selector \in StringSelectors : CalculateFromConfig(cfg, selector)
  \/ \E cfg \in LoanConfigs, selector \in NumberSelectors : CalculateFromConfig(cfg, selector)
  \/ Month
  \/ PushYear

SpecFromConfig == LoanInit /\ [][FromConfigNext]_vars

LoanNext ==
  \/ \E b \in DeductionBalances, y \in DeductionYears, h \in BOOLEAN :
       CalculateLoanDeduction(b, y, h)
  \/ \E args \in Loans : CalculateYearlyBalance(args) /\ UNCHANGED selection
  \/ Month
  \/ PushYear

SpecLoan == LoanInit /\ [][LoanNext]_vars

(***************************************************************************)
(* The quantities the properties below are stated in, computed from the    *)
(* book alone                                                              *)
(***************************************************************************)
RECURSIVE SumTo(_, _)
SumTo(f, k) == IF k = 0 THEN Zero ELSE Add(SumTo(f, k - 1), f[k])

Sum(f) == SumTo(f, Len(f))

\* U: total units, lots x 10,000 summed over the book
BookUnits == Mul(Num(10000), Sum([i \in 1..Len(config.positions) |-> config.positions[i].lots]))

\* E: entryPrice x units summed over the book
BookEntryValue ==
  Sum([i \in 1..Len(config.positions) |->
         Mul(Mul(config.positions[i].entryPrice, config.positions[i].lots), Num(10000))])

Balance == config.account.balance
Leverage == config.settings.leverage

IsLong(position) == ToLowerCase(position.side) = "buy"
IsShort(position) == ToLowerCase(position.side) = "sell"

NonEmpty == Len(config.positions) > 0
AllLong == \A i \in 1..Len(config.positions) : IsLong(config.positions[i])
AllShort == \A i \in 1..Len(config.positions) : IsShort(config.positions[i])
HasLong == \E i \in 1..Len(config.positions) : IsLong(config.positions[i])
HasShort == \E i \in 1..Len(config.positions) : IsShort(config.positions[i])
LotsPositive == \A i \in 1..Len(config.positions) : Gt(config.positions[i].lots, Zero)

Solved == target # Null
Evaluated == snapshot.rate # Null
RoundTripped == Solved /\ critical # Null /\ Evaluated /\ snapshot.rate = critical

\* U x (1 - T/(100 x L)) and U x (1 + T/(100 x L))
LongDenominator == Mul(BookUnits, Sub(Num(1), Div(target, Mul(Num(100), Leverage))))
ShortDenominator == Mul(BookUnits, Add(Num(1), Div(target, Mul(Num(100), Leverage))))

\* |x| >= 1e-10
AtLeastEpsilon(x) == ~Lt(Abs(x), Sci(1, -10))

\* the book of the worked example: balance 1,000,000, one long of 10 lots at 150.00, leverage 25
ExampleBook ==
  /\ Balance = Num(1000000)
  /\ Leverage = Num(25)
  /\ Len(config.positions) = 1
  /\ config.positions[1].side = "buy"
  /\ config.positions[1].lots = Num(10)
  /\ config.positions[1].entryPrice = Num(150)

C2_MixedBookIsNull ==
  (Solved /\ HasLong /\ HasShort) => critical = Null

C2_Witness ==
  /\ Solved
  /\ HasLong
  /\ HasShort
  /\ critical = Null
  /\ \E i \in 1..Len(config.positions) : config.positions[i].side = "Buy"

(***************************************************************************)
(* C3 (as stated): on a non-empty all-long book whose denominator          *)
(* U x (1 - T/(100 x L)) is not zero, findCriticalRate returns exactly     *)
(* (E - B) / (U x (1 - T/(100 x L))).                                      *)
(***************************************************************************)
C3_LongFormulaNonZeroDenominator ==
  (Solved /\ NonEmpty /\ AllLong /\ LongDenominator # Zero)
    => /\ critical # Null
       /\ critical = Div(Sub(BookEntryValue, Balance), LongDenominator)

(***************************************************************************)
(* C3 (amended): on a non-empty all-long book whose denominator            *)
(* U x (1 - T/(100 x L)) has magnitude at least 1e-10, findCriticalRate    *)
(* returns exactly (E - B) / (U x (1 - T/(100 x L))); with balance         *)
(* 1,000,000, one long of 10 lots at 150.00, leverage 25 and T = 100 that  *)
(* is 14,000,000 / 96,000.  Below 1e-10 it returns null.                   *)
(***************************************************************************)
C3_LongFormula ==
  (Solved /\ NonEmpty /\ AllLong)
    => IF AtLeastEpsilon(LongDenominator)
       THEN /\ critical # Null
            /\ critical = Div(Sub(BookEntryValue, Balance), LongDenominator)
            /\ (ExampleBook /\ target = Num(100)) => critical = Frac(14000000, 96000)
       ELSE critical = Null

C3_Witness ==
  /\ ExampleBook
  /\ target = Num(100)
  /\ critical = Frac(14000000, 96000)
  /\ ToFixed(critical, 2) = Frac(14583, 100)

(***************************************************************************)
(* C4 (as stated): on a non-empty all-short book findCriticalRate returns  *)
(* exactly (B + E) / (U x (1 + T/(100 x L))), for every target T.          *)
(***************************************************************************)
C4_ShortFormulaEveryTarget ==
  (Solved /\ NonEmpty /\ AllShort)
    => /\ critical # Null
       /\ critical = Div(Add(Balance, BookEntryValue), ShortDenominator)

(***************************************************************************)
(* C4 (amended): on a non-empty all-short book whose denominator           *)
(* U x (1 + T/(100 x L)) has magnitude at least 1e-10, findCriticalRate    *)
(* returns exactly (B + E) / (U x (1 + T/(100 x L))); below 1e-10 (as for  *)
(* T = -100 x L, or for lots far below one currency unit) it returns null. *)
(***************************************************************************)
C4_ShortFormula ==
  (Solved /\ NonEmpty /\ AllShort)
    => IF AtLeastEpsilon(ShortDenominator)
       THEN /\ critical # Null
            /\ critical = Div(Add(Balance, BookEntryValue), ShortDenominator)
       ELSE critical = Null

C4_Witness ==
  /\ Solved
  /\ AllShort
  /\ Len(config.positions) = 2
  /\ config.positions[1].lots # config.positions[2].lots
  /\ target = Num(100)
  /\ Leverage = Num(25)
  /\ critical # Null
  /\ Mul(critical, Mul(BookUnits, Frac(104, 100))) = Add(Balance, BookEntryValue)

(***************************************************************************)
(* C5: on every all-long book findCriticalRate returns null for the        *)
(* target T = 100 x leverage, whatever the balance and the entry prices:   *)
(* the denominator is zero there and no quotient is returned.              *)
(***************************************************************************)
C5_ZeroDenominatorIsNull ==
  (Solved /\ AllLong /\ target = Mul(Num(100), Leverage)) => critical = Null

C5_Witness ==
  /\ Solved
  /\ NonEmpty
  /\ AllLong
  /\ target = Mul(Num(100), Leverage)
  /\ Sub(BookEntryValue, Balance) # Zero
  /\ critical = Null

(***************************************************************************)
(* C6: for a book of zero total units, the empty book among them,          *)
(* calculateMarginLevelAtRate returns marginLevel exactly 0 at every rate, *)
(* so every row of a scan over such a book, and the analysis at the        *)
(* current price, report marginLevel 0.                                    *)
(***************************************************************************)
C6_ZeroUnitsMarginLevelZero ==
  BookUnits = Zero
    => /\ Evaluated => snapshot.marginLevel = Zero
       /\ \A i \in 1..Len(analysisResults) : analysisResults[i].marginLevel = Zero
       /\ pc = "done" => response.currentAnalysis.marginLevel = Zero

C6_Witness ==
  /\ config.positions = <<>>
  /\ Evaluated
  /\ snapshot.rate = Num(150)
  /\ snapshot.marginLevel = Zero
  /\ pc = "done"
  /\ Len(analysisResults) = 3
  /\ \A i \in 1..3 : analysisResults[i].marginLevel = Zero

(***************************************************************************)
(* C7: calculateMarginLevelAtRate returns requiredMargin =                 *)
(* (sum of lots x 10,000) x rate / leverage, equity = balance + totalPnL,  *)
(* and marginLevel = equity / requiredMargin x 100 when requiredMargin > 0 *)
(* and 0 otherwise.                                                        *)
(***************************************************************************)
C7_EvaluatorFormulas ==
  Evaluated
    => /\ Mul(snapshot.requiredMargin, Leverage) = Mul(BookUnits, snapshot.rate)
       /\ snapshot.equity = Add(Balance, snapshot.totalPnL)
       /\ IF Gt(snapshot.requiredMargin, Zero)
          THEN Mul(snapshot.marginLevel, snapshot.requiredMargin)
                 = Mul(snapshot.equity, Num(100))
          ELSE snapshot.marginLevel = Zero

C7_Witness ==
  /\ ExampleBook
  /\ Evaluated
  /\ snapshot.rate = Num(150)
  /\ snapshot.requiredMargin = Num(600000)
  /\ snapshot.equity = Num(1000000)
  /\ snapshot.marginLevel = Frac(500, 3)

(***************************************************************************)
(* C8: calculateTotalPnL gives every position, in the book's order,        *)
(* units = lots x 10,000 and pnl = (rate - entryPrice) x units for a long, *)
(* (entryPrice - rate) x units for a short; totalPnL and totalUnits are    *)
(* the sums over the positions, both 0 for the empty list.                 *)
(***************************************************************************)
C8_PnLPerPositionAndTotals ==
  Evaluated
    => LET ps == config.positions
           ds == snapshot.positionDetails
       IN  /\ Len(ds) = Len(ps)
           /\ \A i \in 1..Len(ps) :
                /\ ds[i].id = ps[i].id
                /\ ds[i].units = Mul(ps[i].lots, Num(10000))
                /\ IsLong(ps[i])
                     => ds[i].pnl = Mul(Sub(snapshot.rate, ps[i].entryPrice), ds[i].units)
                /\ IsShort(ps[i])
                     => ds[i].pnl = Mul(Sub(ps[i].entryPrice, snapshot.rate), ds[i].units)
           /\ snapshot.totalPnL = Sum([i \in 1..Len(ds) |-> ds[i].pnl])
           /\ snapshot.totalUnits = Sum([i \in 1..Len(ds) |-> ds[i].units])
           /\ ps = <<>> => (snapshot.totalPnL = Zero /\ snapshot.totalUnits = Zero)

C8_Witness ==
  /\ Evaluated
  /\ snapshot.rate = Num(150)
  /\ Len(config.positions) = 2
  /\ IsLong(config.positions[1])
  /\ IsShort(config.positions[2])
  /\ snapshot.positionDetails[1].pnl = Num(500000)
  /\ snapshot.positionDetails[2].pnl = Num(-500000)
  /\ snapshot.totalPnL = Zero
  /\ snapshot.totalUnits = Num(20000)

(***************************************************************************)
(* C9: for minRate <= maxRate and step > 0 a finished scan holds exactly   *)
(* floor((maxRate - minRate) / step) + 1 rows and the rates it reports     *)
(* (the server's rounded to two decimals) are strictly ascending.          *)
(***************************************************************************)
MinRate == config.settings.analysis.minRate
MaxRate == config.settings.analysis.maxRate
Step == config.settings.analysis.step

C9_ScanLengthAndAscendingRates ==
  (pc = "done" /\ Le(MinRate, MaxRate) /\ Gt(Step, Zero))
    => /\ Len(analysisResults) = Floor(Div(Sub(MaxRate, MinRate), Step)) + 1
       /\ \A i \in 1..(Len(analysisResults) - 1) :
            Lt(analysisResults[i].rate, analysisResults[i + 1].rate)

(***************************************************************************)
(* C10: a scan started with step <= 0 fails with an InvalidRange error     *)
(* reported to the caller and produces no row.                             *)
(***************************************************************************)
C10_NonPositiveStepIsInvalidRange ==
  (pc # "idle" /\ Le(Step, Zero))
    => /\ analysisResults = <<>>
       /\ pc = "done" => response.error = "InvalidRange"

(***************************************************************************)
(* C11: a scan started with minRate > maxRate fails with an InvalidRange   *)
(* error reported to the caller; it does not return an empty series.       *)
(***************************************************************************)
C11_InvertedRangeIsInvalidRange ==
  (pc = "done" /\ Gt(MinRate, MaxRate))
    => /\ response.error = "InvalidRange"
       /\ ~(response.error = "none" /\ analysisResults = <<>>)

(***************************************************************************)
(* C12: every scan terminates: whatever minRate, maxRate and step are,     *)
(* step = 0 and step < 0 included, a scan that has entered its loop        *)
(* reaches the code after the loop.                                        *)
(***************************************************************************)
C12_ScanTerminates == (pc = "loop") ~> (pc = "done")

(***************************************************************************)
(* C13: every row of a scan is classified from its marginLevel alone into  *)
(* exactly one of four buckets: forced-liquidation/danger if <= 50,        *)
(* warning if in (50, 100], caution if in (100, 200], safe if > 200; the   *)
(* table's status and the server's riskLevel name the same bucket for the  *)
(* same marginLevel.                                                       *)
(***************************************************************************)
FourBuckets == {"danger", "warning", "caution", "safe"}

\* the bucket a label names: the table's forced-liquidation is the server's danger
BucketOf(label) == IF label = "forced-liquidation" THEN "danger" ELSE label

BucketFor(marginLevel) ==
  IF Le(marginLevel, Num(50)) THEN "danger"
  ELSE IF Le(marginLevel, Num(100)) THEN "warning"
  ELSE IF Le(marginLevel, Num(200)) THEN "caution"
  ELSE "safe"

C13_FourBucketsSameForTableAndServer ==
  \A i \in 1..Len(analysisResults) :
    /\ BucketOf(analysisResults[i].riskLevel) \in FourBuckets
    /\ BucketOf(analysisResults[i].riskLevel) = BucketFor(analysisResults[i].marginLevel)

\* how severe a status is, the table's and the server's labels on one scale
SeverityRank(label) ==
  CASE label \in {"danger", "forced-liquidation"} -> 5
    [] label = "warning" -> 4
    [] label = "caution" -> 3
    [] label = "fairly-safe" -> 2
    [] OTHER -> 1

SingleLong ==
  /\ Len(config.positions) = 1
  /\ IsLong(config.positions[1])
  /\ LotsPositive
  /\ Gt(Leverage, Zero)

\* the rows of the scan at positive rates show marginLevel non-decreasing and
\* severity non-increasing
RowsMonotone ==
  \A i, j \in 1..Len(analysisResults) :
    (i < j /\ Gt(analysisResults[i].rate, Zero))
      => /\ Le(analysisResults[i].marginLevel, analysisResults[j].marginLevel)
         /\ SeverityRank(analysisResults[i].riskLevel)
              >= SeverityRank(analysisResults[j].riskLevel)

C15_PureFunctions ==
  [][/\ config' = config
     /\ console' = <<>>
     /\ (target # Null /\ target' = target) => critical' = critical
     /\ (Evaluated /\ snapshot'.rate = snapshot.rate) => snapshot' = snapshot]_vars

(***************************************************************************)
(* C16: whenever findCriticalRate returns a rate, zero and negative rates  *)
(* included, the summary of the scan reports that rate (to two decimals);  *)
(* it reports none only when findCriticalRate returned null.               *)
(***************************************************************************)
ReportsSolved(reported, solved) ==
  /\ solved # Null => reported = ToFixed(solved, 2)
  /\ reported = Null => solved = Null

C16_ReportsEveryNonNullRate ==
  pc = "done"
    => /\ ReportsSolved(response.criticalLevels.marginCall100,
                        findCriticalRate(config, Num(100)).ret)
       /\ ReportsSolved(response.criticalLevels.stopOut50,
                        findCriticalRate(config, Num(50)).ret)

\* no two positions of the list share an id
UniqueIds(positions) ==
  \A i, j \in 1..Len(positions) : positions[i].id = positions[j].id => i = j

\* C17: the book opened in the ConfigPanel having unique ids, after any sequence of
\* addPosition and removePosition and the save that follows, no two positions of the
\* stored book share an id.
C17_IdsUniqueAfterAddAndRemove == UniqueIds(config.positions)

\* C18: after any sequence of ConfigPanel edits and PUT /api/fx-config requests, every
\* stored position has lots > 0 and the stored leverage is > 0.
C18_StoredLotsAndLeveragePositive ==
  /\ \A i \in 1..Len(config.positions) : Gt(config.positions[i].lots, Zero)
  /\ Gt(config.settings.leverage, Zero)

(***************************************************************************)
(* C19: on the empty book findCriticalRate takes the uniform-side path,    *)
(* not the mixed one: both side flags stay true, no mixed-book warning is  *)
(* written, and null is returned for every target margin level.            *)
(***************************************************************************)
C19_EmptyBookIsUniformAndNull ==
  (Solved /\ ~NonEmpty)
    => /\ allBuyPositions(config.positions)
       /\ allSellPositions(config.positions)
       /\ console = <<>>
       /\ critical = Null

C19_Witness ==
  /\ Solved
  /\ config.positions = <<>>
  /\ target = Num(2500)
  /\ Sub(BookEntryValue, Balance) # Zero
  /\ console = <<>>
  /\ critical = Null

(***************************************************************************)
(* C20: calculateLoanDeduction returns 0 when hasDeduction is false or     *)
(* year > 13, and otherwise 0.7% of min(remainingBalance, 45,000,000); so  *)
(* every row of calculateYearlyBalance with year >= 14 has loanDeduction 0 *)
(* and no row's deduction exceeds 315,000.                                 *)
(***************************************************************************)
C20_DeductionRuleAndRowBounds ==
  /\ deduction.called =>
       /\ (~deduction.hasDeduction \/ deduction.year > 13) => deduction.ret = Zero
       /\ (deduction.hasDeduction /\ deduction.year <= 13) =>
            \/ /\ LeNumbers(deduction.remainingBalance, Num(45000000))
               /\ MulNumbers(deduction.ret, Num(1000)) =
                    MulNumbers(deduction.remainingBalance, Num(7))
            \/ /\ LeNumbers(Num(45000000), deduction.remainingBalance)
               /\ deduction.ret = Num(315000)
  /\ \A i \in 1..Len(yearlyData) :
       /\ yearlyData[i].year >= 14 => yearlyData[i].loanDeduction = Zero
       /\ LeNumbers(yearlyData[i].loanDeduction, Num(315000))

\* a finished table of a loan with the deduction: a row at the cap, a row below it and
\* a row after the thirteenth year
C20_Witness ==
  /\ loanPc = "done"
  /\ loan.hasDeduction
  /\ \E i \in 1..Len(yearlyData) : yearlyData[i].loanDeduction = Num(315000)
  /\ \E i \in 1..Len(yearlyData) :
       /\ LtNumbers(Zero, yearlyData[i].loanDeduction)
       /\ LtNumbers(yearlyData[i].loanDeduction, Num(315000))
  /\ \E i \in 1..Len(yearlyData) :
       /\ yearlyData[i].year >= 14
       /\ LtNumbers(Zero, yearlyData[i].remainingBalance)
       /\ yearlyData[i].loanDeduction = Zero

(***************************************************************************)
(* The displayed schedules                                                 *)
(***************************************************************************)
Started == loanPc # "idle"
Finished == loanPc = "done"
ZeroRate == Started /\ IsZero(loan.annualRate)
LastRow == yearlyData[Len(yearlyData)]

\* the payment is loanAmount / (years x 12) and no row shows interest
EvenPaymentNoInterest ==
  /\ loan.monthlyPayment = DivNumbers(loan.loanAmount, Num(loan.years * 12))
  /\ \A i \in 1..Len(yearlyData) : IsZero(yearlyData[i].yearlyInterest)

\* what rounding may leave of a balance
Residue == Frac(1, 1000000)

Calculates(c) ==
  /\ selection.outcome = "selected"
  /\ Started
  /\ loan.loanAmount = c.loanAmount
  /\ loan.annualRate = c.annualRate
  /\ loan.years = c.years
  /\ loan.hasDeduction = c.hasDeduction

\* an error was reported and no calculation made
ReportsError == selection.outcome = "error" /\ ~Started

SelectorType == selection.selector.type
SelectorValue == selection.selector.value
Scenarios == selection.config.scenarios

InRange(v) == LeNumbers(Zero, v) /\ LtNumbers(v, Num(Len(Scenarios)))

(***************************************************************************)
(* C22: calculateFromConfig selects by selector: null (or none) uses       *)
(* defaultConfig, a string the scenario of that name, a number             *)
(* scenarios[index]; for an unknown name, an index outside                 *)
(* [0, scenarios.length) or a selector of another type it reports an error *)
(* and makes no loan calculation.                                          *)
(***************************************************************************)
C22_SelectsOrReportsError ==
  selection.called =>
    /\ SelectorType \in {"null", "undefined"} => Calculates(selection.config.defaultConfig)
    /\ SelectorType = "string" =>
         IF \E i \in 1..Len(Scenarios) : Scenarios[i].name = SelectorValue
         THEN \E i \in 1..Len(Scenarios) :
                Scenarios[i].name = SelectorValue /\ Calculates(Scenarios[i])
         ELSE ReportsError
    /\ SelectorType = "number" =>
         IF InRange(SelectorValue)
         THEN \E i \in 1..Len(Scenarios) : SelectorValue = Num(i - 1) /\ Calculates(Scenarios[i])
         ELSE ReportsError
    /\ SelectorType \in {"boolean", "object"} => ReportsError

(***************************************************************************)
(* Sides that are neither buy nor sell                                     *)
(***************************************************************************)
IsOtherSide(position) == ~IsLong(position) /\ ~IsShort(position)
HasOtherSide == \E i \in 1..Len(config.positions) : IsOtherSide(config.positions[i])
AllSameSide ==
  \A i, j \in 1..Len(config.positions) : config.positions[i].side = config.positions[j].side

\* the profit of a short: (entryPrice - rate) x lots x 10,000
ShortPnL(position, rate) ==
  Mul(Sub(position.entryPrice, rate), Mul(position.lots, Num(10000)))

(***************************************************************************)
(* C23: findCriticalRate returns null for every book that contains a       *)
(* position whose side, compared case-insensitively, is neither 'buy' nor  *)
(* 'sell', even when all positions carry that same side; and               *)
(* calculateTotalPnL evaluates each such position as a short.              *)
(***************************************************************************)
C23_OtherSideReturnsNull ==
  HasOtherSide =>
    /\ Solved => critical = Null
    /\ Evaluated =>
         \A i \in 1..Len(config.positions) :
           IsOtherSide(config.positions[i]) =>
             snapshot.positionDetails[i].pnl = ShortPnL(config.positions[i], snapshot.rate)

\* a book of two positions of side 'long' was solved and evaluated
C23_Witness ==
  /\ Len(config.positions) = 2
  /\ AllSameSide
  /\ config.positions[1].side = "long"
  /\ Solved
  /\ critical = Null
  /\ Evaluated
  /\ snapshot.positionDetails[1].pnl = ShortPnL(config.positions[1], snapshot.rate)

(***************************************************************************)
(* The server                                                              *)
(***************************************************************************)
\* the step handles the PUT request r
HandlesPut(r) == r \in requests /\ r.method = "PUT" /\ r \notin requests'

\* the response the step sends for r
Answer(r) == CHOOSE a \in responses' : a.request = r

Carries(r, member) == member \in r.body.has

(***************************************************************************)
(* C24: PUT /api/fx-config never changes settings; it leaves positions,    *)
(* currentPrice and account as they are when the body omits them; it       *)
(* merges account shallowly, so the keys of the stored account that the    *)
(* request does not carry persist; and when the stored config cannot be    *)
(* loaded it responds 500 and writes nothing.                              *)
(***************************************************************************)
C24_PutMergesAndKeepsSettings ==
  [][\A r \in requests :
       HandlesPut(r) =>
         IF config = Unreadable
         THEN Answer(r).status = 500 /\ config' = config
         ELSE /\ Answer(r).status = 200
              /\ config'.settings = config.settings
              /\ ~Carries(r, "positions") => config'.positions = config.positions
              /\ ~Carries(r, "currentPrice") => config'.currentPrice = config.currentPrice
              /\ ~Carries(r, "account") => config'.account = config.account
              /\ Carries(r, "account") =>
                   /\ DOMAIN config.account \subseteq DOMAIN config'.account
                   /\ \A k \in DOMAIN config.account \ DOMAIN r.body.account :
                        config'.account[k] = config.account[k]
                   /\ \A k \in DOMAIN r.body.account :
                        config'.account[k] = r.body.account[k]]_vars

\* a PUT that carried a balance, and one that carried nothing, were answered with 200,
\* and the comment of the account is still stored
C24_Witness ==
  /\ config # Unreadable
  /\ config.account.balance = Num(2000000)
  /\ config.account.comment = "net assets"
  /\ \E a \in responses :
       a.request.method = "PUT" /\ a.request.body = NoBody /\ a.status = 200

\* the PUT requests answered with 200, and those issued at all
Written == {a.request : a \in {b \in responses : b.request.method = "PUT" /\ b.status = 200}}
Put == {r \in requests : r.method = "PUT"} \cup
       {a.request : a \in {b \in responses : b.request.method = "PUT"}}

\* the sequences of requests out of S, none twice
Orders(S) ==
  UNION {{seq \in [1..k -> S] : \A i, j \in 1..k : seq[i] = seq[j] => i = j} :
           k \in 0..Cardinality(S)}

\* the file after the handler has run for each request of seq, one whole run after the other
RECURSIVE Applied(_, _)
Applied(stored, seq) ==
  IF Len(seq) = 0 THEN stored
  ELSE UpdatedConfig(Applied(stored, SubSeq(seq, 1, Len(seq) - 1)), seq[Len(seq)].body)

PriceAndBalanceWritten ==
  \E r \in Written : r.body.has = {"currentPrice", "account"} /\ "balance" \in DOMAIN r.body.account
PositionsWritten == \E r \in Written : r.body.has = {"positions"}

(***************************************************************************)
(* C25: the requests one server process handles are atomic with respect to *)
(* the config file.  The file is what whole runs of the PUT handler, one   *)
(* after the other in some order, leave of it; two concurrent PUTs that    *)
(* set different fields both take effect; and what a GET answers is the    *)
(* file as it was between whole runs, never a partial update.              *)
(***************************************************************************)
C25_RequestsAreAtomic ==
  /\ config # Unreadable =>
       /\ \E stored \in ServerBooks, seq \in Orders(Written) :
            Len(seq) = Cardinality(Written) /\ config = Applied(stored, seq)
       /\ PriceAndBalanceWritten /\ PositionsWritten =>
            /\ config.currentPrice = Num(151)
            /\ config.account.balance = Num(2000000)
            /\ Len(config.positions) = 1
            /\ config.positions[1].side = "sell"
  /\ \A a \in responses :
       a.request.method = "GET" /\ a.status = 200 =>
         \E stored \in ServerBooks, seq \in Orders(Put) : a.result = Served(Applied(stored, seq))

\* the PUT issued first was handled last: the file holds what both PUTs set, and a GET
\* was answered between them
C25_Witness ==
  /\ config # Unreadable
  /\ PriceAndBalanceWritten
  /\ PositionsWritten
  /\ config.currentPrice = Num(151)
  /\ config.positions[1].side = "sell"
  /\ \E a \in responses :
       /\ a.request.method = "GET"
       /\ a.status = 200
       /\ a.result.currentPrice = Num(150)
       /\ Len(a.result.positions) = 1
       /\ a.result.positions[1].side = "sell"
       /\ \E r \in Written : r.body.has = {"positions"} /\ r.id > a.request.id

(***************************************************************************)
(* The FXAnalyzer                                                          *)
(***************************************************************************)
\* no request and no response is on its way
Quiescent == requests = {} /\ responses = {}

\* a save has succeeded: every body the panel sends differs from every book the
\* FXAnalyzer starts on
Saved == config # Unreadable /\ config \notin ServerBooks

(***************************************************************************)
(* C26: once a save has succeeded and every request in flight has          *)
(* completed, the data displayed are the saved configuration: the response *)
(* to a GET issued before the save never overwrites data loaded after it.  *)
(***************************************************************************)
C26_DisplayedDataIsSaved ==
  Saved /\ Quiescent => data = Served(config)

\* the step takes the response a from the network and resumes the function that awaits it
Resumes(a) == a \in responses /\ a \notin responses'

\* the requests the step issues
Issued == requests' \ requests

\* the step is a click of the user on the toggle or the cancel button
Click == requests' = requests /\ responses' = responses /\ now' = now

(***************************************************************************)
(* C27: handleConfigSave closes the panel if and only if the PUT           *)
(* succeeded.  On a response that is not OK, and on a network error, the   *)
(* panel stays as it is, an error toast is shown and no reload is issued;  *)
(* on success the reload is issued, and the panel closes only when the     *)
(* reload has finished.                                                    *)
(***************************************************************************)
C27_PanelClosesAfterSuccessfulSave ==
  [][/\ \A a \in responses :
          Resumes(a) /\ a.request.then = "save" =>
            /\ showConfig' = showConfig
            /\ IF a.status = 200
               THEN /\ \E r \in Issued : r.method = "GET" /\ r.then = "reload"
                    /\ toast'.shown /\ toast'.type = "success"
               ELSE /\ Issued = {}
                    /\ toast'.shown /\ toast'.type = "error"
     /\ \A a \in responses : Resumes(a) /\ a.request.then = "reload" => ~showConfig'
     /\ showConfig /\ ~showConfig' =>
          Click \/ \E a \in responses : Resumes(a) /\ a.request.then = "reload"]_vars

\* a PUT has succeeded, its reload has finished and the panel is closed
C27_Witness ==
  /\ Quiescent
  /\ Saved
  /\ ~showConfig
  /\ data = Served(config)
  /\ toast.shown
  /\ toast.message = "saved"

\* the step is a timeout: one set by showToast, or the one of the Toast component
TimeoutRuns ==
  /\ now' = now
  /\ requests' = requests
  /\ responses' = responses
  /\ \/ timers' # timers
     \/ \E deadline \in toastTimer : Due(deadline)

(***************************************************************************)
(* C28: every toast showToast displays stays visible for 5 seconds unless  *)
(* it is dismissed: the timeout of an earlier toast never clears a later   *)
(* toast before that.                                                      *)
(***************************************************************************)
C28_ToastStaysFiveSeconds ==
  [][toast.shown /\ ~toast'.shown /\ TimeoutRuns => now >= toast.since + ToastDuration]_vars

(***************************************************************************)
(* calculateYearlyBalance: the rows                                        *)
(***************************************************************************)
\* a + b and a - b of two doubles without rounding: s * m * 2^x with m of any length
ExactSigned(sa, a, sb, b, x) ==
  IF sa = sb THEN [s |-> sa, m |-> BigAdd(a, b), x |-> x]
  ELSE IF a = b THEN DoubleZero
  ELSE IF BigLess(a, b) THEN [s |-> sb, m |-> BigSub(b, a), x |-> x]
  ELSE [s |-> sa, m |-> BigSub(a, b), x |-> x]

ExactAdd(a, b) ==
  IF a.s = 0 THEN b
  ELSE IF b.s = 0 THEN a
  ELSE ExactSigned(a.s, BigShl(a.m, a.x - MinInt(a.x, b.x)),
                   b.s, BigShl(b.m, b.x - MinInt(a.x, b.x)), MinInt(a.x, b.x))

\* u + v and u - v as real numbers, of the values of doubles or of exact numbers
Plus(u, v) ==
  IF IsDouble(u) \/ IsDouble(v) THEN ExactAdd(ToDouble(u), ToDouble(v)) ELSE AddNumbers(u, v)
Minus(u, v) == Plus(u, NegNumber(v))

\* the yearlyPrincipal of the first k rows, summed
RECURSIVE PrincipalPaid(_)
PrincipalPaid(k) ==
  IF k = 0 THEN Zero ELSE Plus(PrincipalPaid(k - 1), yearlyData[k].yearlyPrincipal)

\* loanAmount less the principal of the rows 1..k, less the balance of row k
Gap(k) == Minus(Minus(loan.loanAmount, PrincipalPaid(k)), yearlyData[k].remainingBalance)

\* |g| < 2^-20, which is below 0.000001
Negligible(g) == IF IsDouble(g) THEN g.s = 0 \/ BigBitLen(g.m) + g.x <= -20 ELSE g = Zero

\* the rows are those of the years 1, 2, ..., at most loan.years of them, none of a negative
\* balance and none after a row of balance 0
RowsInOrder ==
  /\ Len(yearlyData) <= loan.years
  /\ \A i \in 1..Len(yearlyData) :
       /\ yearlyData[i].year = i
       /\ LeNumbers(Zero, yearlyData[i].remainingBalance)
       /\ i < Len(yearlyData) => ~IsZero(yearlyData[i].remainingBalance)

RECURSIVE TotalPayment(_)
TotalPayment(k) ==
  IF k = 0 THEN Zero ELSE Plus(TotalPayment(k - 1), yearlyData[k].yearlyPayment)

RECURSIVE TotalInterest(_)
TotalInterest(k) ==
  IF k = 0 THEN Zero ELSE Plus(TotalInterest(k - 1), yearlyData[k].yearlyInterest)

\* what the rows so far have paid off
PaidOff == Minus(loan.loanAmount, LastRow.remainingBalance)

(***************************************************************************)
(* C30: in every row yearlyPayment = yearlyPrincipal + yearlyInterest, so  *)
(* that the yearlyPayment of all rows add up to the loan paid off plus the *)
(* interest of all rows, whatever monthlyPayment is, also when the loan is *)
(* paid off in the middle of a year.                                       *)
(***************************************************************************)
C30_PaymentIsPrincipalPlusInterest ==
  Started /\ Len(yearlyData) > 0 =>
    /\ \A i \in 1..Len(yearlyData) :
         yearlyData[i].yearlyPayment =
           Plus(yearlyData[i].yearlyPrincipal, yearlyData[i].yearlyInterest)
    /\ TotalPayment(Len(yearlyData)) = Plus(PaidOff, TotalInterest(Len(yearlyData)))

====
